---- MODULE Spec2Model ----
(***************************************************************************)
(* Model of the KalybrateX evaluation pipeline (src/evaluator).            *)
(*                                                                         *)
(* The components modelled here are the execution-comparison cascade       *)
(* (ExecutionEvaluator.compare_verifications), the quality A/B protocol    *)
(* (QualityEvaluator.evaluate, judge_comparison, parse_judge_response),    *)
(* the Scorer (calculate_win_rate, calculate_grade, calculate_cost,        *)
(* score), the execution score (ExecutionEvaluator._calculate_score), the  *)
(* security checker (parse_security_response, determine_grade, analyze),   *)
(* the execution verifier (extract_code, execute_in_docker,                *)
(* execute_locally, verify_output, verify_response), the prompt catalog    *)
(* (get_skill_category, get_execution_prompts), ExecutionEvaluator         *)
(* .evaluate, the DataLogger, evaluate_skill and the evaluate-all branch   *)
(* of main.                                                                *)
(*                                                                         *)
(* The state of the model is the operation applied last, the arguments it  *)
(* was applied to, and its outcome: a returned value or a raised           *)
(* exception, together with the requests the operation sent to the         *)
(* completion service and the steps it took (processes started, files      *)
(* written and checked, DataLogger methods called).  The one state kept    *)
(* between calls is the evidence store under data/evaluations: store is    *)
(* the store of the skill evaluate_skill is called for (for evaluate-all,  *)
(* the list of the stores of the skills found), and calls counts the calls *)
(* made on it one after the other.                                         *)
(*                                                                         *)
(* Numbers.  A Python float that the code computes as a quotient is kept   *)
(* as an exact fraction [num, den] (value num/den); round(x, 2) yields a   *)
(* fraction over 100, rounded half-to-even as Python rounds.               *)
(***************************************************************************)
EXTENDS Integers, Sequences, FiniteSets

VARIABLES op, args, ret, requests, steps, store, calls

vars == <<op, args, ret, requests, steps, store, calls>>

(***************************************************************************)
(* Bounds of the model.                                                    *)
(***************************************************************************)
\* longest list of quality comparisons handed to the Scorer
MaxComparisons == 3
\* longest list of execution comparisons handed to _calculate_score
MaxExecComparisons == 2
\* longest list of issues in a SecurityResult
MaxIssues == 2
\* longest list of expected files handed to verify_output
MaxExpectedFiles == 2
\* longest list of expected files handed to verify_response
MaxResponseFiles == 1
\* most code blocks of a response handed to extract_code
MaxBlocks == 3
\* most calls made one after the other on the evidence store of a skill
MaxCalls == 2
\* most skills evaluate-all finds
MaxSkills == 2
\* most prompts the quality loop of evaluate_skill is handed
MaxQualityPrompts == 2
\* largest num_prompts handed to ExecutionEvaluator.evaluate
MaxNumPrompts == 8
\* win rates handed to the grade functions are the multiples of 1/GradeDen percent
GradeDen == 4

(***************************************************************************)
(* Outcomes of a call: a returned value or a raised exception.             *)
(***************************************************************************)
Returned(v) == [kind |-> "returned", value |-> v]

Raised(e) == [kind |-> "raised", error |-> e]

\* Python's None, for an Optional[float]
None == [is_none |-> TRUE]

IsNone(x) == "is_none" \in DOMAIN x

\* the float num/den
Frac(n, d) == [num |-> n, den |-> d]

\* equality of two floats kept as fractions
FracEq(x, y) == x.num * y.den = y.num * x.den

\* x <= y for two floats kept as fractions (denominators are positive)
FracLe(x, y) == x.num * y.den <= y.num * x.den

(***************************************************************************)
(* models.py: Verdict                                                      *)
(***************************************************************************)
SKILL_WINS == "skill"

BASELINE_WINS == "baseline"

TIE == "tie"

Verdict == {SKILL_WINS, BASELINE_WINS, TIE}

(***************************************************************************)
(* execution_verifier.py: VerificationResult, reduced to the four flags    *)
(* that the evaluator reads.                                               *)
(***************************************************************************)
VerificationResult ==
    [code_extracted : BOOLEAN, executed : BOOLEAN,
     execution_success : BOOLEAN, output_valid : BOOLEAN]

\* compare_verifications with the code-extraction step tried before the
\* execution step
compare_verifications_code_first(baseline, skill) ==
    LET b_valid == baseline.output_valid
        s_valid == skill.output_valid
        b_ran   == baseline.execution_success
        s_ran   == skill.execution_success
        b_code  == baseline.code_extracted
        s_code  == skill.code_extracted
    IN  IF s_valid /\ ~b_valid THEN <<SKILL_WINS, "valid">>
        ELSE IF b_valid /\ ~s_valid THEN <<BASELINE_WINS, "valid">>
        ELSE IF b_valid /\ s_valid THEN <<TIE, "valid">>
        ELSE IF s_code /\ ~b_code THEN <<SKILL_WINS, "code">>
        ELSE IF b_code /\ ~s_code THEN <<BASELINE_WINS, "code">>
        ELSE IF s_ran /\ ~b_ran THEN <<SKILL_WINS, "ran">>
        ELSE IF b_ran /\ ~s_ran THEN <<BASELINE_WINS, "ran">>
        ELSE <<TIE, "Both failed equally">>

\* compare_verifications with the last step turned round: the side that
\* produced code loses
compare_verifications_code_loses(baseline, skill) ==
    LET b_valid == baseline.output_valid
        s_valid == skill.output_valid
        b_ran   == baseline.execution_success
        s_ran   == skill.execution_success
        b_code  == baseline.code_extracted
        s_code  == skill.code_extracted
    IN  IF s_valid /\ ~b_valid THEN <<SKILL_WINS, "valid">>
        ELSE IF b_valid /\ ~s_valid THEN <<BASELINE_WINS, "valid">>
        ELSE IF b_valid /\ s_valid THEN <<TIE, "valid">>
        ELSE IF s_ran /\ ~b_ran THEN <<SKILL_WINS, "ran">>
        ELSE IF b_ran /\ ~s_ran THEN <<BASELINE_WINS, "ran">>
        ELSE IF s_code /\ ~b_code THEN <<BASELINE_WINS, "code">>
        ELSE IF b_code /\ ~s_code THEN <<SKILL_WINS, "code">>
        ELSE <<TIE, "Both failed equally">>

(***************************************************************************)
(* ExecutionEvaluator.compare_verifications: the ordered cascade.          *)
(* Returns <<verdict, reasoning>>.                                         *)
(***************************************************************************)
compare_verifications(baseline, skill) ==
    LET b_valid == baseline.output_valid
        s_valid == skill.output_valid
        b_ran   == baseline.execution_success
        s_ran   == skill.execution_success
        b_code  == baseline.code_extracted
        s_code  == skill.code_extracted
    IN  IF s_valid /\ ~b_valid
          THEN <<SKILL_WINS, "Skill produced valid output, baseline did not">>
        ELSE IF b_valid /\ ~s_valid
          THEN <<BASELINE_WINS, "Baseline produced valid output, skill did not">>
        ELSE IF b_valid /\ s_valid
          THEN <<TIE, "Both produced valid output">>
        ELSE IF s_ran /\ ~b_ran
          THEN <<SKILL_WINS, "Skill code ran, baseline code failed">>
        ELSE IF b_ran /\ ~s_ran
          THEN <<BASELINE_WINS, "Baseline code ran, skill code failed">>
        ELSE IF s_code /\ ~b_code
          THEN <<SKILL_WINS, "Skill produced code, baseline did not">>
        ELSE IF b_code /\ ~s_code
          THEN <<BASELINE_WINS, "Baseline produced code, skill did not">>
        ELSE <<TIE, "Both failed equally">>

(***************************************************************************)
(* quality_evaluator.py: the judge's response text, by what                *)
(* parse_judge_response can make of it.                                    *)
(*   invalid_json       json.loads raises JSONDecodeError                  *)
(*   no_verdict         a JSON object without a "verdict" key              *)
(*   verdict_not_string a JSON object whose "verdict" is null or a number  *)
(*   json_array         a JSON array holding no "verdict" string           *)
(*   json_scalar        a JSON number, on which the "in" test raises       *)
(*   verdict            a JSON object whose "verdict" is the string given  *)
(***************************************************************************)
VerdictTexts == {"A", "B", "TIE", "a", "b", "tie", "Tie", "C", "skill", ""}

JudgeResponses ==
    {[shape |-> "invalid_json"], [shape |-> "no_verdict"],
     [shape |-> "verdict_not_string"], [shape |-> "json_array"],
     [shape |-> "json_scalar"]}
    \cup {[shape |-> "verdict", verdict |-> v] : v \in VerdictTexts}

\* str.upper() on the verdict texts
upper(s) ==
    CASE s = "a" -> "A"
      [] s = "b" -> "B"
      [] s \in {"tie", "Tie"} -> "TIE"
      [] s = "skill" -> "SKILL"
      [] OTHER -> s

\* parse_judge_response: <<verdict, reasoning>> or an exception
parse_judge_response(response_text) ==
    CASE response_text.shape = "invalid_json" -> Raised("JudgeParseError")
      [] response_text.shape = "no_verdict" -> Raised("JudgeParseError")
      [] response_text.shape = "verdict_not_string" -> Raised("AttributeError")
      [] response_text.shape = "json_array" -> Raised("JudgeParseError")
      [] response_text.shape = "json_scalar" -> Raised("TypeError")
      [] OTHER -> Returned(<<upper(response_text.verdict), "reasoning">>)

\* judge_comparison with the B branch a copy of the A branch
judge_comparison_b_as_a(response_text, position_a) ==
    LET parsed == parse_judge_response(response_text)
    IN  IF parsed.kind = "raised" THEN parsed
        ELSE LET raw_verdict == parsed.value[1]
                 verdict ==
                     IF raw_verdict = "TIE" THEN TIE
                     ELSE IF position_a = "skill" THEN SKILL_WINS
                     ELSE BASELINE_WINS
             IN  Returned(<<verdict, parsed.value[2]>>)

\* QualityEvaluator.judge_comparison, after the judge's completion has
\* returned response_text: the mapping of A/B/TIE to the skill-relative verdict
judge_comparison(response_text, position_a) ==
    LET parsed == parse_judge_response(response_text)
    IN  IF parsed.kind = "raised" THEN parsed
        ELSE LET raw_verdict == parsed.value[1]
                 reasoning   == parsed.value[2]
                 verdict ==
                     IF raw_verdict = "TIE" THEN TIE
                     ELSE IF raw_verdict = "A"
                       THEN (IF position_a = "skill" THEN SKILL_WINS
                                                     ELSE BASELINE_WINS)
                     ELSE (IF position_a = "skill" THEN BASELINE_WINS
                                                   ELSE SKILL_WINS)
             IN  Returned(<<verdict, reasoning>>)

\* the three completions of QualityEvaluator.evaluate, in order
baseline_request == [model |-> "execution", system |-> "none"]

skill_request == [model |-> "execution", system |-> "skill_content"]

\* QualityEvaluator.evaluate lines 349-358: which response is shown where
judge_request(position_a) ==
    LET baseline_response == "baseline_response"
        skill_response    == "skill_response"
    IN  [model |-> "judge",
         response_a |-> IF position_a = "skill" THEN skill_response
                                                ELSE baseline_response,
         response_b |-> IF position_a = "skill" THEN baseline_response
                                                ELSE skill_response]

(***************************************************************************)
(* QualityEvaluator.evaluate.  position_a is the draw of random.choice,    *)
(* response_text the judge's answer, fails_at the completion (1, 2 or 3)   *)
(* that raises an API error, 0 when none does.  Yields the outcome and the *)
(* requests sent.                                                          *)
(***************************************************************************)
evaluate(position_a, response_text, fails_at) ==
    LET position_b == IF position_a = "skill" THEN "baseline" ELSE "skill"
        judged == judge_comparison(response_text, position_a)
    IN  IF fails_at = 1
          THEN [ret |-> Raised("APIError"), requests |-> <<baseline_request>>]
        ELSE IF fails_at = 2
          THEN [ret |-> Raised("APIError"),
                requests |-> <<baseline_request, skill_request>>]
        ELSE LET sent == <<baseline_request, skill_request,
                           judge_request(position_a)>>
             IN  IF fails_at = 3
                   THEN [ret |-> Raised("APIError"), requests |-> sent]
                 ELSE IF judged.kind = "raised"
                   THEN [ret |-> judged, requests |-> sent]
                 ELSE [ret |-> Returned(
                                 [baseline_response |-> "baseline_response",
                                  skill_response |-> "skill_response",
                                  verdict |-> judged.value[1],
                                  reasoning |-> judged.value[2],
                                  position_a |-> position_a,
                                  position_b |-> position_b]),
                       requests |-> sent]

(***************************************************************************)
(* models.py: ComparisonResult, reduced to the fields the Scorer reads,    *)
(* and SecurityResult, reduced to its grade and the severities of its      *)
(* issues.                                                                 *)
(***************************************************************************)
TokenCounts == {100, 200}

ComparisonResult == [verdict : Verdict, skill_tokens : TokenCounts]

SecurityGrade == {"secure", "warning", "fail"}

Severity == {"low", "medium", "high"}

\* the sequences over S of length at most n
SeqUpTo(S, n) == UNION {[1..k -> S] : k \in 0..n}

SecurityResult == [grade : SecurityGrade, issues : SeqUpTo(Severity, MaxIssues)]

(***************************************************************************)
(* Python's round(100 * n / d, 2) as a fraction over 100: the nearest      *)
(* hundredth, a tie going to the even one.                                 *)
(***************************************************************************)
round2(n, d) ==
    LET q == (10000 * n) \div d
        r == (10000 * n) % d
    IN  IF 2 * r > d THEN Frac(q + 1, 100)
        ELSE IF 2 * r = d THEN Frac(q + (q % 2), 100)
        ELSE Frac(q, 100)

(***************************************************************************)
(* Scorer.calculate_win_rate.  The loop of lines 92-98: tally[i] is        *)
(* <<wins, losses, ties>> after the first i comparisons.                   *)
(***************************************************************************)
RECURSIVE tally(_, _)
tally(comparisons, i) ==
    IF i = 0 THEN <<0, 0, 0>>
    ELSE LET t == tally(comparisons, i - 1)
             v == comparisons[i].verdict
         IN  IF v = SKILL_WINS THEN <<t[1] + 1, t[2], t[3]>>
             ELSE IF v = BASELINE_WINS THEN <<t[1], t[2] + 1, t[3]>>
             ELSE <<t[1], t[2], t[3] + 1>>

\* calculate_win_rate with every comparison, ties included, in the denominator
calculate_win_rate_over_all(comparisons) ==
    IF Len(comparisons) = 0 THEN Raised("ScorerError")
    ELSE LET t == tally(comparisons, Len(comparisons))
         IN  IF t[1] + t[2] = 0 THEN Returned(<<t[1], t[2], t[3], None>>)
             ELSE Returned(<<t[1], t[2], t[3], round2(t[1], Len(comparisons))>>)

calculate_win_rate(comparisons) ==
    IF Len(comparisons) = 0 THEN Raised("ScorerError")
    ELSE LET t == tally(comparisons, Len(comparisons))
             wins == t[1]
             losses == t[2]
             ties == t[3]
             decisive_comparisons == wins + losses
         IN  IF decisive_comparisons = 0
               THEN Returned(<<wins, losses, ties, None>>)
             ELSE Returned(<<wins, losses, ties,
                             round2(wins, decisive_comparisons)>>)

(***************************************************************************)
(* Scorer.calculate_grade                                                  *)
(***************************************************************************)
calculate_grade(win_rate) ==
    IF IsNone(win_rate) THEN "F"
    ELSE IF win_rate.num >= 80 * win_rate.den THEN "A"
    ELSE IF win_rate.num >= 60 * win_rate.den THEN "B"
    ELSE IF win_rate.num >= 40 * win_rate.den THEN "C"
    ELSE IF win_rate.num >= 20 * win_rate.den THEN "D"
    ELSE "F"

(***************************************************************************)
(* Scorer.calculate_cost.  HAIKU_OUTPUT_PRICE is 1.25 / 1_000_000.         *)
(***************************************************************************)
HAIKU_OUTPUT_PRICE == Frac(125, 100000000)

RECURSIVE sum_skill_tokens(_, _)
sum_skill_tokens(comparisons, i) ==
    IF i = 0 THEN 0
    ELSE sum_skill_tokens(comparisons, i - 1) + comparisons[i].skill_tokens

\* calculate_cost answering zero for an empty list
calculate_cost_empty_zero(comparisons) ==
    IF Len(comparisons) = 0 THEN Returned(<<Frac(0, 1), Frac(0, 1)>>)
    ELSE LET total_skill_tokens == sum_skill_tokens(comparisons, Len(comparisons))
             avg_tokens == Frac(total_skill_tokens, Len(comparisons))
         IN  Returned(<<avg_tokens,
                        Frac(avg_tokens.num * HAIKU_OUTPUT_PRICE.num,
                             avg_tokens.den * HAIKU_OUTPUT_PRICE.den)>>)

calculate_cost(comparisons) ==
    IF Len(comparisons) = 0 THEN Raised("ScorerError")
    ELSE LET total_skill_tokens == sum_skill_tokens(comparisons, Len(comparisons))
             avg_tokens == Frac(total_skill_tokens, Len(comparisons))
             cost_usd == Frac(avg_tokens.num * HAIKU_OUTPUT_PRICE.num,
                              avg_tokens.den * HAIKU_OUTPUT_PRICE.den)
         IN  Returned(<<avg_tokens, cost_usd>>)

(***************************************************************************)
(* models.py: SkillScore.  Every field is declared without a default, so   *)
(* the constructor raises ValidationError unless each is given; the        *)
(* counts are ge=0 and the grade is one of the five letters.               *)
(***************************************************************************)
SkillScoreFields ==
    {"skill_name", "wins", "losses", "ties", "win_rate", "grade",
     "security_grade", "security_issues_count",
     "avg_tokens_per_use", "cost_per_use_usd",
     "avg_baseline_tokens", "baseline_cost_usd",
     "total_comparisons", "scored_at"}

Grades == {"A", "B", "C", "D", "F"}

SkillScore(kwargs) ==
    IF /\ SkillScoreFields \subseteq DOMAIN kwargs
       /\ kwargs.wins >= 0 /\ kwargs.losses >= 0 /\ kwargs.ties >= 0
       /\ kwargs.grade \in Grades
       /\ kwargs.security_grade \in SecurityGrade
       /\ kwargs.security_issues_count >= 0
       /\ kwargs.total_comparisons >= 0
      THEN Returned(kwargs)
      ELSE Raised("ValidationError")

(***************************************************************************)
(* Scorer.score                                                            *)
(***************************************************************************)
score(skill_name, comparisons, security_result) ==
    IF Len(comparisons) = 0 THEN Raised("ScorerError")
    ELSE LET wr == calculate_win_rate(comparisons)
             cost == calculate_cost(comparisons)
         IN  IF wr.kind = "raised" THEN wr
             ELSE IF cost.kind = "raised" THEN cost
             ELSE SkillScore(
                    [skill_name |-> skill_name,
                     wins |-> wr.value[1],
                     losses |-> wr.value[2],
                     ties |-> wr.value[3],
                     win_rate |-> wr.value[4],
                     grade |-> calculate_grade(wr.value[4]),
                     security_grade |-> security_result.grade,
                     security_issues_count |-> Len(security_result.issues),
                     avg_tokens_per_use |-> cost.value[1],
                     cost_per_use_usd |-> cost.value[2],
                     total_comparisons |-> Len(comparisons),
                     scored_at |-> "now"])

(***************************************************************************)
(* scorer.score_combined, as evaluate_skill calls it (main.py line 276).   *)
(* The class Scorer defines calculate_win_rate, calculate_grade,           *)
(* calculate_cost and score only: the attribute lookup raises.             *)
(***************************************************************************)
score_combined(skill_name, comparisons, security_result, execution_score) ==
    Raised("AttributeError")

(***************************************************************************)
(* code_extractor.py.  A response is kept as the list of its fenced code   *)
(* blocks, a block as its normalised language and whether its code is      *)
(* blank once stripped.                                                    *)
(***************************************************************************)
EXECUTABLE_LANGUAGES ==
    {"python", "javascript", "typescript", "bash", "ruby", "elixir"}

\* how many blocks are in the language of block i
lang_count(blocks, i) ==
    Cardinality({j \in 1..Len(blocks) : blocks[j].language = blocks[i].language})

\* detect_primary_language: the most frequent executable language, or else
\* the most frequent language, the first met winning a draw; "text" when
\* there is no block
detect_primary_language(blocks) ==
    IF Len(blocks) = 0 THEN "text"
    ELSE LET executable ==
                 {i \in 1..Len(blocks) : blocks[i].language \in EXECUTABLE_LANGUAGES}
             candidates == IF executable # {} THEN executable ELSE 1..Len(blocks)
             most == {i \in candidates :
                        \A j \in candidates : lang_count(blocks, j) <= lang_count(blocks, i)}
             first == CHOOSE i \in most : \A j \in most : i <= j
         IN  blocks[first].language

\* extract_code that takes any non-blank code for executable
extract_code_any_language(response) ==
    LET primary_lang == detect_primary_language(response)
        relevant == {i \in 1..Len(response) : response[i].language = primary_lang}
        combined_blank == \A i \in relevant : response[i].blank
    IN  [primary_language |-> primary_lang,
         blocks_count |-> Len(response),
         has_executable_code |-> ~combined_blank]

\* extract_code: the primary language and has_executable_code
extract_code(response) ==
    LET primary_lang == detect_primary_language(response)
        relevant == {i \in 1..Len(response) : response[i].language = primary_lang}
        combined_blank == \A i \in relevant : response[i].blank
    IN  [primary_language |-> primary_lang,
         blocks_count |-> Len(response),
         has_executable_code |->
             primary_lang \in EXECUTABLE_LANGUAGES /\ ~combined_blank]

(***************************************************************************)
(* execution_verifier.py: ExecutionResult as execute_in_docker and         *)
(* execute_locally return it: unsupported language, spawn failure, timed   *)
(* out, exited non-zero, exited zero.                                      *)
(***************************************************************************)
ExecutionResult ==
    {[executed |-> FALSE, exit_code |-> -1, error |-> "Unsupported language"],
     [executed |-> FALSE, exit_code |-> -1, error |-> "str(e)"],
     [executed |-> TRUE, exit_code |-> -1, error |-> "Timeout"],
     [executed |-> TRUE, exit_code |-> 1, error |-> "None"],
     [executed |-> TRUE, exit_code |-> 0, error |-> "None"]}

(***************************************************************************)
(* The machine a verification runs on:                                     *)
(*   docker       is_docker_available() is true                            *)
(*   write_fails  writing the script file raises OSError                   *)
(*   run          what subprocess.run of the script ends in: "exit0",      *)
(*                "exit1", "timeout" (TimeoutExpired), "spawn_error" (any  *)
(*                other exception)                                         *)
(***************************************************************************)
Machines ==
    [docker : BOOLEAN, write_fails : BOOLEAN,
     run : {"exit0", "exit1", "timeout", "spawn_error"}]

\* the script every language is written to, as if each could be run
script_of_any(language) ==
    IF language = "bash" THEN "script.sh" ELSE "script.py"

\* the script file the code is written to (lines 104-112 and 208-216);
\* "none" for a language that is neither python nor bash
script_of(language) ==
    IF language = "python" THEN "script.py"
    ELSE IF language = "bash" THEN "script.sh"
    ELSE "none"

(***************************************************************************)
(* execute_in_docker (via = "docker") and execute_locally (via = "local"), *)
(* which differ in the command only.  Yields the outcome and the steps     *)
(* taken: the script written, the process started.                         *)
(***************************************************************************)
execute(language, via, machine) ==
    LET written == <<[step |-> "write", file |-> script_of(language)]>>
        started == Append(written, [step |-> "run", via |-> via])
        result(executed, exit_code, error) ==
            [ret |-> Returned([executed |-> executed, exit_code |-> exit_code,
                               error |-> error]),
             steps |-> started]
    IN  IF script_of(language) = "none"
          THEN [ret |-> Returned([executed |-> FALSE, exit_code |-> -1,
                                  error |-> "Unsupported language"]),
                steps |-> <<>>]
        ELSE IF machine.write_fails
          THEN [ret |-> Raised("OSError"), steps |-> written]
        ELSE IF machine.run = "exit0" THEN result(TRUE, 0, "None")
        ELSE IF machine.run = "exit1" THEN result(TRUE, 1, "None")
        ELSE IF machine.run = "timeout" THEN result(TRUE, -1, "Timeout")
        ELSE result(FALSE, -1, "str(e)")

(***************************************************************************)
(* An expected output file: its extension, whether its expected           *)
(* properties hold a "keys" list, and what the working directory holds     *)
(* under its name after the execution.                                     *)
(*   missing               no such file                                    *)
(*   as_expected           a file with every expected property             *)
(*   wrong_pages, no_sheet a well-formed PDF / workbook without the        *)
(*                         expected page count / sheet                     *)
(*   corrupt, unparsable   opening or parsing the file raises              *)
(*   library_missing       the import of pypdf / openpyxl / yaml raises    *)
(*   mapping_with_keys     JSON or YAML mapping holding every key of the   *)
(*                         "keys" list                                     *)
(*   mapping_without_keys  a mapping that lacks one of them                *)
(*   sequence              JSON or YAML whose top level is not a mapping   *)
(*   syntax_error          Python source that does not parse               *)
(*   empty                 a file of no bytes                              *)
(*   unreadable            exists, and reading it raises OSError (a        *)
(*                         directory, no permission)                       *)
(***************************************************************************)
ContentsOf(ext) ==
    {"missing"} \cup
    (CASE ext = ".pdf" -> {"as_expected", "wrong_pages", "corrupt", "library_missing"}
       [] ext = ".xlsx" -> {"as_expected", "no_sheet", "corrupt", "library_missing"}
       [] ext = ".json" ->
           {"mapping_with_keys", "mapping_without_keys", "sequence", "unparsable"}
       [] ext = ".yaml" ->
           {"mapping_with_keys", "mapping_without_keys", "sequence", "unparsable",
            "library_missing"}
       [] ext = ".py" -> {"as_expected", "syntax_error"}
       [] ext = ".txt" -> {"as_expected", "empty", "unreadable"})

Extensions == {".pdf", ".xlsx", ".json", ".yaml", ".py", ".txt"}

AllContents == UNION {ContentsOf(ext) : ext \in Extensions}

ExpectedFile ==
    {f \in [ext : Extensions, keys : BOOLEAN, content : AllContents] :
        /\ f.content \in ContentsOf(f.ext)
        /\ f.keys => f.ext \in {".json", ".yaml"}}

\* what a checker returns: (is_valid, properties), the properties kept as
\* whether they hold an "error" entry
checked(valid, error) == Returned([valid |-> valid, error |-> error])

\* verify_pdf_output and verify_xlsx_output
verify_document_output(file) ==
    IF file.content = "as_expected" THEN checked(TRUE, FALSE)
    ELSE IF file.content \in {"wrong_pages", "no_sheet"} THEN checked(FALSE, FALSE)
    ELSE checked(FALSE, TRUE)

\* verify_json_output and verify_yaml_output: the keys are looked for only
\* when "keys" is expected and the content is a dict
verify_mapping_output(file) ==
    IF file.content \in {"unparsable", "library_missing"} THEN checked(FALSE, TRUE)
    ELSE IF file.keys /\ file.content \in {"mapping_with_keys", "mapping_without_keys"}
      THEN IF file.content = "mapping_without_keys"
             THEN checked(FALSE, FALSE)
             ELSE checked(TRUE, FALSE)
    ELSE checked(TRUE, FALSE)

\* verify_code_syntax(file_path, "python")
verify_code_syntax(file) ==
    IF file.content = "syntax_error" THEN checked(FALSE, TRUE)
    ELSE checked(TRUE, FALSE)

\* the check of verify_output for a file that exists, by its extension
\* (lines 477-492); the generic branch reads the bytes outside any try
check_file(file) ==
    IF file.ext \in {".pdf", ".xlsx"} THEN verify_document_output(file)
    ELSE IF file.ext \in {".json", ".yaml"} THEN verify_mapping_output(file)
    ELSE IF file.ext = ".py" THEN verify_code_syntax(file)
    ELSE IF file.content = "unreadable" THEN Raised("OSError")
    ELSE checked(file.content # "empty", FALSE)

\* all_valid taken from the file checked last
keep_valid_last_wins(all_valid, valid) == valid

\* lines 495-496: if not valid: all_valid = False
keep_valid(all_valid, valid) == all_valid /\ valid

(***************************************************************************)
(* verify_output: the loop over expected_files from file i on, with        *)
(* all_valid and properties as built so far and the steps taken so far.    *)
(* Yields the outcome, <<all_valid, properties>> when it returns, and the  *)
(* steps: the existence test and the content check of each file.           *)
(***************************************************************************)
RECURSIVE verify_output_from(_, _, _, _, _)
verify_output_from(expected_files, i, all_valid, properties, taken) ==
    IF i > Len(expected_files)
      THEN [ret |-> Returned(<<all_valid, properties>>), steps |-> taken]
    ELSE LET looked == Append(taken, [step |-> "exists", file |-> i])
             opened == Append(looked, [step |-> "check", file |-> i])
             c == check_file(expected_files[i])
         IN  IF expected_files[i].content = "missing"
               THEN verify_output_from(expected_files, i + 1, FALSE,
                        Append(properties, [exists |-> FALSE, error |-> FALSE]),
                        looked)
             ELSE IF c.kind = "raised"
               THEN [ret |-> c, steps |-> opened]
             ELSE verify_output_from(expected_files, i + 1,
                        keep_valid(all_valid, c.value.valid),
                        Append(properties, [exists |-> TRUE, error |-> c.value.error]),
                        opened)

verify_output(expected_files) ==
    verify_output_from(expected_files, 1, TRUE, <<>>, <<>>)

\* the output is checked after every execution attempt
checks_output_always(exec_result) == TRUE

\* the output is checked whenever a process was started
checks_output_whenever_executed(exec_result) == exec_result.executed

\* line 560: the outputs are verified after an execution that ran and
\* exited with code 0
checks_output(exec_result) == exec_result.executed /\ exec_result.exit_code = 0

(***************************************************************************)
(* verify_response.  Yields the outcome, the VerificationResult when it    *)
(* returns, and the steps taken, in order: the availability probe of       *)
(* container mode, the script written, the process started, the files      *)
(* looked for and checked.                                                 *)
(***************************************************************************)
verify_response(response, expected_files, use_docker, machine) ==
    LET extracted == extract_code(response)
        probe == IF use_docker THEN <<[step |-> "probe"]>> ELSE <<>>
        via == IF use_docker /\ machine.docker THEN "docker" ELSE "local"
        ran == execute(extracted.primary_language, via, machine)
        exec_result == ran.ret.value
        verified == verify_output(expected_files)
        result(output_valid, output_properties) ==
            Returned([code_extracted |-> TRUE,
                      code_language |-> extracted.primary_language,
                      executed |-> exec_result.executed,
                      execution_success |-> (exec_result.exit_code = 0),
                      execution_error |-> exec_result.error,
                      output_valid |-> output_valid,
                      output_properties |-> output_properties])
    IN  IF ~extracted.has_executable_code
          THEN [ret |-> Returned([code_extracted |-> FALSE,
                                  code_language |-> extracted.primary_language,
                                  executed |-> FALSE,
                                  execution_success |-> FALSE,
                                  execution_error |-> "No executable code found",
                                  output_valid |-> FALSE,
                                  output_properties |-> <<>>]),
                steps |-> <<>>]
        ELSE IF ran.ret.kind = "raised"
          THEN [ret |-> ran.ret, steps |-> probe \o ran.steps]
        ELSE IF ~checks_output(exec_result)
          THEN [ret |-> result(FALSE, <<>>), steps |-> probe \o ran.steps]
        ELSE IF verified.ret.kind = "raised"
          THEN [ret |-> verified.ret,
                steps |-> probe \o ran.steps \o verified.steps]
        ELSE [ret |-> result(verified.ret.value[1], verified.ret.value[2]),
              steps |-> probe \o ran.steps \o verified.steps]

\* the responses verified: no block, one block of each executable language,
\* a blank python block, a yaml block, a yaml block before a javascript one
Responses ==
    {<<>>, <<[language |-> "python", blank |-> TRUE]>>,
     <<[language |-> "yaml", blank |-> FALSE]>>,
     <<[language |-> "yaml", blank |-> FALSE],
       [language |-> "javascript", blank |-> FALSE]>>}
    \cup {<<[language |-> l, blank |-> FALSE]>> : l \in EXECUTABLE_LANGUAGES}

\* the expected files of a verified response: JSON files and generic files
ResponseFile == {f \in ExpectedFile : f.ext \in {".json", ".txt"}}

\* is_docker_available() is asked in container mode only
VerifyResponseArgs ==
    {a \in [response : Responses,
            expected_files : SeqUpTo(ResponseFile, MaxResponseFiles),
            use_docker : BOOLEAN, machine : Machines] :
        a.machine.docker => a.use_docker}

\* the four flags of a VerificationResult
flags_of(verification) ==
    [code_extracted |-> verification.code_extracted,
     executed |-> verification.executed,
     execution_success |-> verification.execution_success,
     output_valid |-> verification.output_valid]

\* the verification results verify_response can return
Verifications ==
    {flags_of(verify_response(a.response, a.expected_files,
                              a.use_docker, a.machine).ret.value) :
        a \in {x \in VerifyResponseArgs :
                 verify_response(x.response, x.expected_files,
                                 x.use_docker, x.machine).ret.kind = "returned"}}

(***************************************************************************)
(* models.py: ExecutionComparisonResult, with the verdict that             *)
(* compare_verifications gives for its two verification results.           *)
(***************************************************************************)
ExecutionComparisonResult ==
    {[baseline_verification |-> b, skill_verification |-> s,
      execution_verdict |-> compare_verifications(b, s)[1],
      verdict_reasoning |-> compare_verifications(b, s)[2]] :
        b \in Verifications, s \in Verifications}

(***************************************************************************)
(* ExecutionEvaluator._calculate_grade                                     *)
(***************************************************************************)
\* _calculate_grade with a strict comparison at the A threshold
exec_calculate_grade_strict(win_rate) ==
    IF IsNone(win_rate) THEN "F"
    ELSE IF win_rate.num > 80 * win_rate.den THEN "A"
    ELSE IF win_rate.num >= 60 * win_rate.den THEN "B"
    ELSE IF win_rate.num >= 40 * win_rate.den THEN "C"
    ELSE IF win_rate.num >= 20 * win_rate.den THEN "D"
    ELSE "F"

exec_calculate_grade(win_rate) ==
    IF IsNone(win_rate) THEN "F"
    ELSE IF win_rate.num >= 80 * win_rate.den THEN "A"
    ELSE IF win_rate.num >= 60 * win_rate.den THEN "B"
    ELSE IF win_rate.num >= 40 * win_rate.den THEN "C"
    ELSE IF win_rate.num >= 20 * win_rate.den THEN "D"
    ELSE "F"

(***************************************************************************)
(* models.py: ExecutionScore.  The counts are ge=0, the three rates are    *)
(* within [0, 100], the grade is one of the five letters.                  *)
(***************************************************************************)
InPercentRange(x) == 0 <= x.num /\ x.num <= 100 * x.den

ExecutionScore(kwargs) ==
    IF /\ kwargs.prompts_tested >= 0 /\ kwargs.code_extracted_count >= 0
       /\ kwargs.executions_attempted >= 0 /\ kwargs.executions_succeeded >= 0
       /\ kwargs.outputs_valid >= 0
       /\ kwargs.execution_wins >= 0 /\ kwargs.execution_losses >= 0
       /\ kwargs.execution_ties >= 0
       /\ InPercentRange(kwargs.extraction_rate)
       /\ InPercentRange(kwargs.execution_success_rate)
       /\ InPercentRange(kwargs.validation_rate)
       /\ kwargs.execution_grade \in Grades
      THEN Returned(kwargs)
      ELSE Raised("ValidationError")

(***************************************************************************)
(* ExecutionEvaluator._empty_score                                         *)
(***************************************************************************)
exec_empty_score ==
    ExecutionScore(
      [prompts_tested |-> 0, code_extracted_count |-> 0,
       executions_attempted |-> 0, executions_succeeded |-> 0,
       outputs_valid |-> 0,
       execution_wins |-> 0, execution_losses |-> 0, execution_ties |-> 0,
       extraction_rate |-> Frac(0, 1), execution_success_rate |-> Frac(0, 1),
       validation_rate |-> Frac(0, 1),
       execution_win_rate |-> None, execution_grade |-> "F"])

(***************************************************************************)
(* ExecutionEvaluator._calculate_score                                     *)
(***************************************************************************)
\* sum(1 for c in comparisons if <condition on c>), the conditions given as
\* the sequence of their values
count(conditions) == Cardinality({i \in DOMAIN conditions : conditions[i]})

\* the rate with numerator and denominator exchanged
rate_inverted(a, b) == IF a > 0 THEN round2(b, a) ELSE Frac(0, 1)

\* (a / b * 100) if b > 0 else 0.0, then round(.., 2)
rate(a, b) == IF b > 0 THEN round2(a, b) ELSE Frac(0, 1)

\* the verdict counts with every comparison the skill did not win taken
\* for a tie
exec_verdict_counts_ties_not_wins(comparisons) ==
    <<count([i \in 1..Len(comparisons) |-> comparisons[i].execution_verdict = SKILL_WINS]),
      count([i \in 1..Len(comparisons) |-> comparisons[i].execution_verdict = BASELINE_WINS]),
      count([i \in 1..Len(comparisons) |-> comparisons[i].execution_verdict # SKILL_WINS])>>

\* the verdict counts of lines 327-329: <<wins, losses, ties>>
exec_verdict_counts(comparisons) ==
    <<count([i \in 1..Len(comparisons) |-> comparisons[i].execution_verdict = SKILL_WINS]),
      count([i \in 1..Len(comparisons) |-> comparisons[i].execution_verdict = BASELINE_WINS]),
      count([i \in 1..Len(comparisons) |-> comparisons[i].execution_verdict = TIE])>>

exec_calculate_score(comparisons) ==
    IF Len(comparisons) = 0 THEN exec_empty_score
    ELSE LET prompts_tested == Len(comparisons)
             code_extracted ==
                 count([i \in 1..Len(comparisons) |-> comparisons[i].skill_verification.code_extracted])
             executions_attempted ==
                 count([i \in 1..Len(comparisons) |-> comparisons[i].skill_verification.executed])
             executions_succeeded ==
                 count([i \in 1..Len(comparisons) |-> comparisons[i].skill_verification.execution_success])
             outputs_valid ==
                 count([i \in 1..Len(comparisons) |-> comparisons[i].skill_verification.output_valid])
             wins == exec_verdict_counts(comparisons)[1]
             losses == exec_verdict_counts(comparisons)[2]
             ties == exec_verdict_counts(comparisons)[3]
             decisive == wins + losses
             execution_win_rate ==
                 IF decisive > 0 THEN Frac(100 * wins, decisive) ELSE None
         IN  ExecutionScore(
               [prompts_tested |-> prompts_tested,
                code_extracted_count |-> code_extracted,
                executions_attempted |-> executions_attempted,
                executions_succeeded |-> executions_succeeded,
                outputs_valid |-> outputs_valid,
                execution_wins |-> wins,
                execution_losses |-> losses,
                execution_ties |-> ties,
                extraction_rate |-> rate(code_extracted, prompts_tested),
                execution_success_rate |->
                    rate(executions_succeeded, executions_attempted),
                validation_rate |-> rate(outputs_valid, executions_succeeded),
                execution_win_rate |->
                    IF IsNone(execution_win_rate) THEN None
                    ELSE round2(wins, decisive),
                execution_grade |-> exec_calculate_grade(execution_win_rate)])

(***************************************************************************)
(* skill_categories.py                                                     *)
(***************************************************************************)
FILE_ARTIFACT == "file_artifact"

CODE_GENERATION == "code_generation"

CONFIGURATION == "configuration"

ADVISORY == "advisory"

\* the keys of SKILL_CATEGORIES, by the category they are mapped to
FileArtifactSkills == {"pdf", "xlsx", "docx", "pptx", "csv", "image", "svg"}

CodeGenerationSkills ==
    {"mcp-builder", "webapp-testing", "elixir-thinking", "phoenix-thinking",
     "otp-thinking", "ecto-thinking", "oban-thinking", "web-artifacts-builder",
     "algorithmic-art", "canvas-design", "frontend-design", "slack-gif-creator"}

ConfigurationSkills ==
    {"skill-homeassistant", "skillforge", "skill-creator", "template",
     "marketplace-manager", "marketplace-release", "marketplace-audit",
     "marketplace-bump"}

AdvisorySkills ==
    {"writing", "design", "product", "founder", "career", "counsel", "recall",
     "gate", "trace", "internal-comms", "doc-coauthoring", "brand-guidelines",
     "notebooklm-skill", "codex", "gemini"}

SKILL_CATEGORIES ==
    [n \in FileArtifactSkills \cup CodeGenerationSkills
             \cup ConfigurationSkills \cup AdvisorySkills |->
        IF n \in FileArtifactSkills THEN FILE_ARTIFACT
        ELSE IF n \in CodeGenerationSkills THEN CODE_GENERATION
        ELSE IF n \in ConfigurationSkills THEN CONFIGURATION
        ELSE ADVISORY]

\* the skill names evaluated: one or two of each category, a name written
\* in capitals between blanks, and two names that are not in the map
SkillNames ==
    {"pdf", " PDF ", "xlsx", "docx", "mcp-builder", "skillforge", "writing",
     "my-excel-skill", "unheard-of"}

\* str.lower() and str.strip() on the skill names
lower(s) == IF s = " PDF " THEN " pdf " ELSE s

strip(s) == IF s = " pdf " THEN "pdf" ELSE s

\* `sub in s` on the lowered skill names
contains(s, sub) ==
    <<s, sub>> \in {<<"pdf", "pdf">>, <<" pdf ", "pdf">>, <<"xlsx", "xlsx">>,
                    <<"my-excel-skill", "excel">>}

\* get_skill_category with unknown names taken for code generation
get_skill_category_unknown_is_code(skill_name) ==
    LET normalized == strip(lower(skill_name))
    IN  IF normalized \in DOMAIN SKILL_CATEGORIES
          THEN SKILL_CATEGORIES[normalized]
          ELSE CODE_GENERATION

\* get_skill_category: SKILL_CATEGORIES.get(normalized, ADVISORY)
get_skill_category(skill_name) ==
    LET normalized == strip(lower(skill_name))
    IN  IF normalized \in DOMAIN SKILL_CATEGORIES
          THEN SKILL_CATEGORIES[normalized]
          ELSE ADVISORY

\* requires_execution: the skill's category is not advisory
requires_execution(skill_name) ==
    get_skill_category(skill_name) \in {FILE_ARTIFACT, CODE_GENERATION, CONFIGURATION}

(***************************************************************************)
(* prompt_templates.py: an ExecutionPrompt is kept as its tier and its     *)
(* expected files.                                                         *)
(***************************************************************************)
ExecutionPrompt(tier, expected_files) ==
    [tier |-> tier, expected_files |-> expected_files]

TIER_1_PDF_PROMPTS ==
    <<ExecutionPrompt(1, <<"test.pdf">>), ExecutionPrompt(1, <<"simple.pdf">>),
      ExecutionPrompt(1, <<"report.pdf">>), ExecutionPrompt(1, <<"invoice.pdf">>)>>

TIER_1_XLSX_PROMPTS ==
    <<ExecutionPrompt(1, <<"data.xlsx">>), ExecutionPrompt(1, <<"report.xlsx">>)>>

TIER_1_CODE_PROMPTS ==
    <<ExecutionPrompt(1, <<"calculator.py">>), ExecutionPrompt(1, <<"utils.py">>)>>

TIER_1_CONFIG_PROMPTS ==
    <<ExecutionPrompt(1, <<"config.yaml">>), ExecutionPrompt(1, <<"settings.json">>)>>

TIER_2_PDF_PROMPTS == <<ExecutionPrompt(2, <<"output.pdf">>)>>

TIER_2_TRANSFORM_PROMPTS ==
    <<ExecutionPrompt(2, <<"output.yaml">>), ExecutionPrompt(2, <<"output.json">>)>>

TIER_2_CODE_PROMPTS == <<ExecutionPrompt(2, <<"process.py", "result.json">>)>>

\* the slice s[:n] of a list, for n >= 0
take(s, n) == SubSeq(s, 1, IF n < Len(s) THEN n ELSE Len(s))

(***************************************************************************)
(* get_execution_prompts(skill_name, count=num_prompts), for a count >= 0  *)
(***************************************************************************)
get_execution_prompts(skill_name, num_prompts) ==
    LET category == get_skill_category(skill_name)
        pdf == contains(lower(skill_name), "pdf")
        xlsx == contains(lower(skill_name), "xlsx")
                  \/ contains(lower(skill_name), "excel")
        tier1 == IF category = FILE_ARTIFACT
                   THEN (IF pdf THEN TIER_1_PDF_PROMPTS
                         ELSE IF xlsx THEN TIER_1_XLSX_PROMPTS
                         ELSE TIER_1_PDF_PROMPTS)
                 ELSE IF category = CODE_GENERATION THEN TIER_1_CODE_PROMPTS
                 ELSE TIER_1_CONFIG_PROMPTS
        tier2 == IF category = FILE_ARTIFACT
                   THEN (IF pdf THEN TIER_2_PDF_PROMPTS
                         ELSE IF xlsx THEN TIER_2_TRANSFORM_PROMPTS
                         ELSE TIER_2_PDF_PROMPTS)
                 ELSE IF category = CODE_GENERATION THEN TIER_2_CODE_PROMPTS
                 ELSE TIER_2_TRANSFORM_PROMPTS
        tier1_count == num_prompts \div 2
        tier2_count == num_prompts - tier1_count
    IN  IF category \notin {FILE_ARTIFACT, CODE_GENERATION, CONFIGURATION}
          THEN <<>>
          ELSE take(tier1, tier1_count) \o take(tier2, tier2_count)

(***************************************************************************)
(* ExecutionEvaluator.evaluate_prompt.  fails_at is the completion (1 or   *)
(* 2) that raises an API error, 0 when none does; baseline_verified and    *)
(* skill_verified are the outcomes of the two verify_response calls.  The  *)
(* two results are instances of the dataclass of execution_verifier.py,    *)
(* and the fields baseline_verification and skill_verification of          *)
(* ExecutionComparisonResult are declared with the pydantic model of the   *)
(* same name in models.py, which takes an instance of itself or a dict:    *)
(* the constructor of lines 234-241 raises ValidationError.  Yields the    *)
(* outcome and the requests sent.                                          *)
(***************************************************************************)
evaluate_prompt(fails_at, baseline_verified, skill_verified) ==
    IF fails_at = 1
      THEN [ret |-> Raised("APIError"), requests |-> <<baseline_request>>]
    ELSE LET sent == <<baseline_request, skill_request>>
         IN  IF fails_at = 2 THEN [ret |-> Raised("APIError"), requests |-> sent]
             ELSE IF baseline_verified.kind = "raised"
               THEN [ret |-> baseline_verified, requests |-> sent]
             ELSE IF skill_verified.kind = "raised"
               THEN [ret |-> skill_verified, requests |-> sent]
             ELSE [ret |-> Raised("ValidationError"), requests |-> sent]

(***************************************************************************)
(* The loop of ExecutionEvaluator.evaluate (lines 271-281) from prompt i   *)
(* on, with the comparisons and the requests so far.  Every prompt of a    *)
(* run meets the same completions and the same verification outcomes.      *)
(***************************************************************************)
RECURSIVE evaluate_prompts(_, _, _, _, _, _, _)
evaluate_prompts(execution_prompts, i, fails_at, baseline_verified, skill_verified, comparisons, sent) ==
    IF i > Len(execution_prompts)
      THEN [comparisons |-> comparisons, requests |-> sent]
    ELSE LET e == evaluate_prompt(fails_at, baseline_verified, skill_verified)
         IN  evaluate_prompts(execution_prompts, i + 1, fails_at,
                 baseline_verified, skill_verified,
                 IF e.ret.kind = "raised" THEN comparisons
                 ELSE Append(comparisons, e.ret.value),
                 sent \o e.requests)

(***************************************************************************)
(* ExecutionEvaluator.evaluate.  Returns <<comparisons, score>>; yields    *)
(* the outcome and the requests sent.                                      *)
(***************************************************************************)
exec_evaluate(skill_name, num_prompts, fails_at, baseline_verified, skill_verified) ==
    LET execution_prompts == get_execution_prompts(skill_name, num_prompts)
        looped == evaluate_prompts(execution_prompts, 1, fails_at,
                      baseline_verified, skill_verified, <<>>, <<>>)
        scored == exec_calculate_score(looped.comparisons)
    IN  IF Len(execution_prompts) = 0
          THEN [ret |-> Returned(<<(<<>>), exec_empty_score.value>>),
                requests |-> <<>>]
        ELSE IF scored.kind = "raised"
          THEN [ret |-> scored, requests |-> looped.requests]
        ELSE [ret |-> Returned(<<looped.comparisons, scored.value>>),
              requests |-> looped.requests]

\* the quality loop leaving at the first prompt whose evaluation raises
quality_loop_stopping(runs, i, comparisons, sent, saved) ==
    LET failed == {j \in i..Len(runs) :
                      evaluate(runs[j].position_a, runs[j].response_text,
                               runs[j].fails_at).ret.kind = "raised"}
        last == IF failed = {} THEN Len(runs)
                ELSE CHOOSE j \in failed : \A k \in failed : j <= k
        done == [j \in i..last |->
                    evaluate(runs[j].position_a, runs[j].response_text,
                             runs[j].fails_at)]
        sentTo[j \in (i - 1)..last] ==
            IF j < i THEN sent ELSE sentTo[j - 1] \o done[j].requests
        good == {j \in i..last : done[j].ret.kind = "returned"}
        compsTo[j \in (i - 1)..last] ==
            IF j < i THEN comparisons
            ELSE IF j \in good THEN Append(compsTo[j - 1], done[j].ret.value)
            ELSE compsTo[j - 1]
        savedTo[j \in (i - 1)..last] ==
            IF j < i THEN saved
            ELSE IF j \in good
              THEN Append(savedTo[j - 1],
                          [step |-> "save_comparison", index |-> j - 1,
                           raised |-> runs[j].save_fails])
            ELSE savedTo[j - 1]
    IN  [ret |-> IF Len(compsTo[last]) = 0 THEN Returned(None)
                 ELSE [kind |-> "continued", comparisons |-> compsTo[last]],
         requests |-> sentTo[last], steps |-> savedTo[last]]

(***************************************************************************)
(* main.py, evaluate_skill: the quality loop of lines 184-206.  A run is   *)
(* what one prompt meets: the arguments of QualityEvaluator.evaluate and   *)
(* whether logger.save_comparison raises.  Yields the outcome, the         *)
(* requests sent and the comparisons saved.  The outcome is None returned  *)
(* at line 206, or the comparisons evaluate_skill goes on with.            *)
(***************************************************************************)
RECURSIVE quality_loop_from(_, _, _, _, _)
quality_loop_from(runs, i, comparisons, sent, saved) ==
    IF i > Len(runs)
      THEN [ret |-> IF Len(comparisons) = 0 THEN Returned(None)
                    ELSE [kind |-> "continued", comparisons |-> comparisons],
            requests |-> sent, steps |-> saved]
    ELSE LET e == evaluate(runs[i].position_a, runs[i].response_text,
                           runs[i].fails_at)
         IN  IF e.ret.kind = "raised"
               THEN quality_loop_from(runs, i + 1, comparisons,
                                      sent \o e.requests, saved)
             ELSE quality_loop_from(runs, i + 1,
                      Append(comparisons, e.ret.value), sent \o e.requests,
                      Append(saved, [step |-> "save_comparison", index |-> i - 1,
                                     raised |-> runs[i].save_fails]))

quality_loop(runs) == quality_loop_from(runs, 1, <<>>, <<>>, <<>>)

(***************************************************************************)
(* security_checker.py.  A SecurityIssue is kept as its category and its   *)
(* severity; both fields are declared str (models.py 93-98), so an issue   *)
(* holds whatever strings the response gave.                               *)
(***************************************************************************)
\* the five categories the analysis prompt names
Taxonomy ==
    {"data_exfiltration", "file_system_abuse", "credential_theft",
     "code_injection", "malicious_dependencies"}

\* category strings of a response: one of the taxonomy, one outside it
CategoryTexts == {"code_injection", "backdoor"}

\* severity strings of a response: the three of the prompt, one outside them
SeverityTexts == {"low", "medium", "high", "critical"}

SecurityIssue == [category : CategoryTexts, severity : SeverityTexts]

\* determine_grade with the medium test tried before the high test
determine_grade_medium_first(issues) ==
    LET severities == {issues[i].severity : i \in 1..Len(issues)}
    IN  IF Len(issues) = 0 THEN "secure"
        ELSE IF "medium" \in severities THEN "warning"
        ELSE IF "high" \in severities THEN "fail"
        ELSE "secure"

(***************************************************************************)
(* determine_grade                                                         *)
(***************************************************************************)
determine_grade(issues) ==
    LET severities == {issues[i].severity : i \in 1..Len(issues)}
    IN  IF Len(issues) = 0 THEN "secure"
        ELSE IF "high" \in severities THEN "fail"
        ELSE IF "medium" \in severities THEN "warning"
        ELSE "secure"

(***************************************************************************)
(* The response text of the security model, by what                        *)
(* parse_security_response can make of it.                                 *)
(*   invalid_json  json.loads raises JSONDecodeError                       *)
(*   no_issues     a JSON object without an "issues" key                   *)
(*   json_array    a JSON array that does not hold the string "issues"     *)
(*   json_scalar   a JSON number, on which the "in" test raises            *)
(*   issues_null   a JSON object whose "issues" is null                    *)
(*   issues        a JSON object whose "issues" is the list of entries     *)
(*                 given; an entry is a JSON object with string values     *)
(*                 that lacks the key `lacks` ("none": it has all four)    *)
(***************************************************************************)
IssueKeys == <<"category", "severity", "description", "evidence">>

IssueEntry ==
    [category : CategoryTexts, severity : SeverityTexts,
     lacks : {"none", "category", "evidence"}]

SecurityResponses ==
    {[shape |-> s] : s \in {"invalid_json", "no_issues", "json_array",
                            "json_scalar", "issues_null"}}
    \cup {[shape |-> "issues", entries |-> e] : e \in SeqUpTo(IssueEntry, MaxIssues)}

\* the loop of lines 201-208 from entry i on, `issues` built so far: each
\* entry is subscripted with the four keys in turn
RECURSIVE convert_issues(_, _, _)
convert_issues(entries, i, issues) ==
    IF i > Len(entries) THEN Returned(issues)
    ELSE IF \E k \in 1..Len(IssueKeys) : entries[i].lacks = IssueKeys[k]
      THEN Raised("KeyError")
    ELSE convert_issues(entries, i + 1,
                        Append(issues, [category |-> entries[i].category,
                                        severity |-> entries[i].severity]))

(***************************************************************************)
(* parse_security_response.  Returns <<issues, analysis>>.                 *)
(***************************************************************************)
parse_security_response(response_text) ==
    IF response_text.shape = "invalid_json"
      THEN Raised("SecurityParseError")
    ELSE IF response_text.shape \in {"no_issues", "json_array"}
      THEN Raised("SecurityParseError")
    ELSE IF response_text.shape \in {"json_scalar", "issues_null"}
      THEN Raised("TypeError")
    ELSE LET converted == convert_issues(response_text.entries, 1, <<>>)
         IN  IF converted.kind = "raised" THEN converted
             ELSE Returned(<<converted.value, "analysis">>)

\* the request SecurityChecker.analyze sends
security_request == [model |-> "security", prompt |-> "build_security_prompt"]

(***************************************************************************)
(* SecurityChecker.analyze.  api_fails: the completion raises an API       *)
(* error.  Yields the outcome and the requests sent.                       *)
(***************************************************************************)
analyze(response_text, api_fails) ==
    LET parsed == parse_security_response(response_text)
    IN  IF api_fails
          THEN [ret |-> Raised("APIError"), requests |-> <<security_request>>]
        ELSE IF parsed.kind = "raised"
          THEN [ret |-> parsed, requests |-> <<security_request>>]
        ELSE [ret |-> Returned([grade |-> determine_grade(parsed.value[1]),
                                issues |-> parsed.value[1],
                                analysis |-> parsed.value[2]]),
              requests |-> <<security_request>>]

(***************************************************************************)
(* data_logger.py: the evidence store of one skill, the files under        *)
(* data/evaluations/{skill_name}, kept as a function from the files        *)
(* present to what was written to them.  A file is its name and, for the   *)
(* files of comparisons/, the index of {index}.json.                       *)
(***************************************************************************)
skill_file(name) == [name |-> name, index |-> 0]

comparison_file(index) == [name |-> "comparisons", index |-> index]

EmptyStore == [f \in {} |-> None]

\* Path.write_text: the file is created or replaced
write_text(files, f, content) ==
    [g \in DOMAIN files \cup {f} |-> IF g = f THEN content ELSE files[g]]

save_skill_md(files, content) == write_text(files, skill_file("skill.md"), content)

save_prompts(files, prompts) == write_text(files, skill_file("prompts.json"), prompts)

save_comparison(files, index, result) ==
    write_text(files, comparison_file(index), result)

save_security(files, result) == write_text(files, skill_file("security.json"), result)

save_score(files, skill_score) == write_text(files, skill_file("score.json"), skill_score)

save_summary(files, skill_score) ==
    write_text(files, skill_file("summary.json"), [grade |-> skill_score.grade])

\* shutil.rmtree of the skill's directory
clear_evaluation(files) == EmptyStore

\* an evaluation taken for complete once its summary is there
summary_exists(files) == skill_file("summary.json") \in DOMAIN files

evaluation_exists(files) == skill_file("score.json") \in DOMAIN files

\* load_score: None without score.json, else the document validated as a
\* SkillScore
load_score(files) ==
    IF skill_file("score.json") \notin DOMAIN files THEN Returned(None)
    ELSE SkillScore(files[skill_file("score.json")])

(***************************************************************************)
(* main.py: evaluate_skill.  a is what the call is given and meets:        *)
(* skill_name, force, skip_security, skip_execution; skill_md (SKILL.md    *)
(* is there), api_key (ANTHROPIC_API_KEY is set), prompts_cached           *)
(* (check_cache_exists); runs, what each generated or cached prompt meets  *)
(* in the quality loop; execution, what the execution prompts meet;        *)
(* security, what SecurityChecker.analyze meets.  files is the evidence    *)
(* store before the call.  Yields the outcome, the requests sent, the      *)
(* operations on the evidence store in order, and the store afterwards.    *)
(***************************************************************************)
logged(name) == [step |-> name, index |-> 0, raised |-> FALSE]

prompts_request == [model |-> "generation", prompt |-> "build_generation_prompt"]

\* the comparison as the scorer reads it: the verdict, and the output tokens
\* of the skill response as the completion reported them
scored_comparison(comparison) ==
    [verdict |-> comparison.verdict, skill_tokens |-> 100]

\* the files the save_comparison calls of the quality loop leave
RECURSIVE save_comparisons(_, _, _, _)
save_comparisons(files, runs, saved, i) ==
    IF i > Len(saved) THEN files
    ELSE LET index == saved[i].index
             result == evaluate(runs[index + 1].position_a,
                                runs[index + 1].response_text,
                                runs[index + 1].fails_at).ret.value
         IN  save_comparisons(IF saved[i].raised THEN files
                              ELSE save_comparison(files, index, result),
                              runs, saved, i + 1)

\* lines 270-305: score.json and summary.json once scorer.score and
\* scorer.score_combined have ended as scored and combined
evaluate_skill_score(scored, combined, sent, done, files) ==
    IF scored.kind = "raised" \/ combined.kind = "raised"
      THEN [ret |-> Returned(None), requests |-> sent, steps |-> done,
            store |-> files]
    ELSE [ret |-> scored, requests |-> sent,
          steps |-> done \o <<logged("save_score"), logged("save_summary")>>,
          store |-> save_summary(save_score(files, scored.value), scored.value)]

\* the result of the security check, made up when it is skipped (250-259)
security_result_of(a, analyzed) ==
    IF a.skip_security
      THEN [grade |-> "secure", issues |-> <<>>,
            analysis |-> "Security check skipped by user request."]
      ELSE analyzed.ret.value

\* lines 248-278: security.json, the score and the combined score once the
\* security check has ended as analyzed
evaluate_skill_security(a, comparisons, analyzed, sent, done, files) ==
    IF ~a.skip_security /\ analyzed.ret.kind = "raised"
      THEN [ret |-> Returned(None), requests |-> sent \o analyzed.requests,
            steps |-> done, store |-> files]
    ELSE evaluate_skill_score(
             score(a.skill_name,
                   [i \in 1..Len(comparisons) |-> scored_comparison(comparisons[i])],
                   security_result_of(a, analyzed)),
             score_combined(a.skill_name, comparisons,
                            security_result_of(a, analyzed), None),
             IF a.skip_security THEN sent ELSE sent \o analyzed.requests,
             Append(done, logged("save_security")),
             save_security(files, security_result_of(a, analyzed)))

\* lines 208-266: the execution verification has ended as executed (its
\* exception is swallowed); the security check follows
evaluate_skill_execution(a, comparisons, executed, sent, done, files) ==
    evaluate_skill_security(a, comparisons,
        analyze(a.security.response_text, a.security.api_fails),
        IF a.skip_execution \/ ~requires_execution(a.skill_name) THEN sent
        ELSE sent \o executed.requests,
        done, files)

\* lines 186-230: the loop over the prompts has ended as looped
evaluate_skill_quality(a, looped, sent, done, files) ==
    IF looped.ret.kind # "continued"
      THEN [ret |-> Returned(None), requests |-> sent \o looped.requests,
            steps |-> done \o looped.steps,
            store |-> save_comparisons(files, a.runs, looped.steps, 1)]
    ELSE evaluate_skill_execution(a, looped.ret.comparisons,
             exec_evaluate(a.skill_name, 8, a.execution.fails_at,
                           a.execution.baseline_verified,
                           a.execution.skill_verified),
             sent \o looped.requests, done \o looped.steps,
             save_comparisons(files, a.runs, looped.steps, 1))

\* lines 156-184, inside the try: SKILL.md, the prompts and the evaluator
evaluate_skill_try(a, done, files) ==
    LET with_md == save_skill_md(files, "skill_content")
        done_md == Append(done, logged("save_skill_md"))
        cached == a.prompts_cached /\ ~a.force
    IN  IF ~a.skill_md
          THEN [ret |-> Returned(None), requests |-> <<>>, steps |-> done,
                store |-> files]
        ELSE IF ~cached /\ ~a.api_key
          THEN [ret |-> Returned(None), requests |-> <<>>, steps |-> done_md,
                store |-> with_md]
        ELSE IF ~a.api_key
          THEN [ret |-> Returned(None), requests |-> <<>>,
                steps |-> Append(done_md, logged("save_prompts")),
                store |-> save_prompts(with_md, Len(a.runs))]
        ELSE evaluate_skill_quality(a, quality_loop(a.runs),
                 IF cached THEN <<>> ELSE <<prompts_request>>,
                 Append(done_md, logged("save_prompts")),
                 save_prompts(with_md, Len(a.runs)))

evaluate_skill(a, files) ==
    IF ~a.force /\ evaluation_exists(files)
      THEN [ret |-> load_score(files), requests |-> <<>>, steps |-> <<>>,
            store |-> files]
    ELSE evaluate_skill_try(a,
             IF a.force THEN <<logged("clear_evaluation")>> ELSE <<>>,
             IF a.force THEN clear_evaluation(files) ELSE files)

(***************************************************************************)
(* main.py, main with --all (lines 518-561): evaluate_skill for each skill *)
(* that list_available_skills found, the scores and the errors gathered,   *)
(* then the summary and the exit code.  skills[i] is what the call for     *)
(* skill i is given and meets, stores[i] the evidence store of skill i,    *)
(* evaluated[i] what evaluate_skill does for skill i.  Yields the summary  *)
(* (exit code, scores, errors), the requests sent, the calls made in order *)
(* and the stores afterwards.                                              *)
(***************************************************************************)
RECURSIVE evaluate_all_from(_, _, _, _, _, _, _)
evaluate_all_from(skills, evaluated, i, scores, errors, sent, done) ==
    IF i > Len(skills)
      THEN [ret |-> Returned([exit_code |-> IF Len(errors) = 0 THEN 0 ELSE 1,
                              scores |-> scores, errors |-> errors]),
            requests |-> sent,
            steps |-> IF Len(scores) > 0
                        THEN Append(done, logged("update_leaderboard"))
                        ELSE done,
            store |-> [k \in 1..Len(skills) |-> evaluated[k].store]]
    ELSE evaluate_all_from(skills, evaluated, i + 1,
             IF evaluated[i].ret.kind = "returned" /\ ~IsNone(evaluated[i].ret.value)
               THEN Append(scores, evaluated[i].ret.value) ELSE scores,
             IF evaluated[i].ret.kind = "raised"
               THEN Append(errors, <<skills[i].skill_name, evaluated[i].ret.error>>)
               ELSE errors,
             sent \o evaluated[i].requests,
             Append(done, [step |-> "evaluate_skill", index |-> i - 1,
                           raised |-> evaluated[i].ret.kind = "raised"]))

evaluate_all(skills, stores) ==
    IF Len(skills) = 0
      THEN [ret |-> Returned([exit_code |-> 1, scores |-> <<>>, errors |-> <<>>]),
            requests |-> <<>>, steps |-> <<>>, store |-> stores]
    ELSE evaluate_all_from(skills,
             [i \in 1..Len(skills) |-> evaluate_skill(skills[i], stores[i])],
             1, <<>>, <<>>, <<>>, <<>>)

(***************************************************************************)
(* The inputs of each operation.                                           *)
(***************************************************************************)
Positions == {"skill", "baseline"}

CompareArgs == [baseline : VerificationResult, skill : VerificationResult]

EvaluateArgs ==
    [position_a : Positions, response_text : JudgeResponses, fails_at : 0..3]

ComparisonLists == SeqUpTo(ComparisonResult, MaxComparisons)

ScoreArgs ==
    [skill_name : {"pdf"}, comparisons : ComparisonLists,
     security_result : SecurityResult]

\* win rates between 0 and 100 in steps of 1/GradeDen, and None
GradeArgs == {None} \cup {Frac(n, GradeDen) : n \in 0..(100 * GradeDen)}

ExecComparisonLists == SeqUpTo(ExecutionComparisonResult, MaxExecComparisons)

\* the outcomes of verify_response, a result kept as its four flags
VerifyOutcomes == {Raised("OSError")} \cup {Returned(v) : v \in Verifications}

ExecEvaluateArgs ==
    [skill_name : SkillNames, num_prompts : 0..MaxNumPrompts, fails_at : 0..2,
     baseline_verified : VerifyOutcomes, skill_verified : VerifyOutcomes]

\* the execution score evaluate_skill holds when it scores: None (execution
\* skipped, not applicable or failed) or the score ExecutionEvaluator.evaluate
\* returned
ExecutionScores ==
    {None} \cup
    {exec_evaluate(a.skill_name, a.num_prompts, a.fails_at, a.baseline_verified,
                   a.skill_verified).ret.value[2] : a \in ExecEvaluateArgs}

\* what one prompt of the quality loop meets
QualityRuns ==
    [position_a : {"skill"},
     response_text : {[shape |-> "invalid_json"]}
                       \cup {[shape |-> "verdict", verdict |-> v] : v \in {"A", "C"}},
     fails_at : {0, 1}, save_fails : BOOLEAN]

ScoreCombinedArgs ==
    [skill_name : {"pdf"}, comparisons : ComparisonLists \ {<<>>},
     security_result : SecurityResult, execution_score : ExecutionScores]

IssueLists == SeqUpTo(SecurityIssue, MaxIssues)

\* the code blocks of a response: an executable language that can be run, one
\* that cannot, a language that is not executable; blank or not
CodeBlock == [language : {"python", "javascript", "json"}, blank : BOOLEAN]

ExtractCodeArgs == [response : SeqUpTo(CodeBlock, MaxBlocks)]

AnalyzeArgs == [response_text : SecurityResponses, api_fails : BOOLEAN]

\* what a prompt of evaluate_skill meets: the judge prefers the skill, or
\* the first completion raises
EvaluateSkillRuns ==
    {r \in QualityRuns :
        r.response_text = [shape |-> "verdict", verdict |-> "A"] /\ ~r.save_fails}

\* what the execution prompts of evaluate_skill meet
ExecutionRuns ==
    [fails_at : {0}, baseline_verified : {Raised("OSError")},
     skill_verified : {Raised("OSError")}]

\* what the security check of evaluate_skill meets: a response without
\* issues, or an API error
SecurityRuns ==
    [response_text : {[shape |-> "issues", entries |-> <<>>]}, api_fails : BOOLEAN]

EvaluateSkillArgs ==
    {a \in [skill_name : {"pdf", "writing"}, force : BOOLEAN,
            skip_security : BOOLEAN, skip_execution : BOOLEAN,
            skill_md : BOOLEAN, api_key : BOOLEAN, prompts_cached : BOOLEAN,
            runs : SeqUpTo(EvaluateSkillRuns, MaxQualityPrompts),
            execution : ExecutionRuns, security : SecurityRuns] :
        a.skip_security => ~a.security.api_fails}

\* a SkillScore as DataLogger.save_score is handed it
SavedScore(skill_name) ==
    [skill_name |-> skill_name, wins |-> 1, losses |-> 0, ties |-> 0,
     win_rate |-> Frac(10000, 100), grade |-> "A",
     security_grade |-> "secure", security_issues_count |-> 0,
     avg_tokens_per_use |-> Frac(100, 1),
     cost_per_use_usd |-> Frac(12500, 100000000),
     avg_baseline_tokens |-> Frac(100, 1),
     baseline_cost_usd |-> Frac(12500, 100000000),
     total_comparisons |-> 1, scored_at |-> "now"]

\* the skills of one evaluate-all: directories with a SKILL.md, of different
\* names, under the same flags and the same environment
EvaluateAllSkills ==
    {a \in [skill_name : {"pdf", "docx", "writing"}, force : BOOLEAN,
            skip_security : {TRUE}, skip_execution : {TRUE},
            skill_md : {TRUE}, api_key : BOOLEAN, prompts_cached : {TRUE},
            runs : SeqUpTo(EvaluateSkillRuns, 1) \ {<<>>},
            execution : ExecutionRuns, security : SecurityRuns] :
        ~a.security.api_fails}

EvaluateAllArgs ==
    {skills \in SeqUpTo(EvaluateAllSkills, MaxSkills) :
        \A i, j \in 1..Len(skills) :
            /\ i # j => skills[i].skill_name # skills[j].skill_name
            /\ skills[i].force = skills[j].force
            /\ skills[i].api_key = skills[j].api_key}

\* the evidence stores evaluate-all can find: nothing, or a saved score
EvaluateAllStores(skills) ==
    {[i \in 1..Len(skills) |->
         IF i \in scored
           THEN save_score(EmptyStore, SavedScore(skills[i].skill_name))
           ELSE EmptyStore] : scored \in SUBSET (1..Len(skills))}

Pending == [kind |-> "pending"]

(***************************************************************************)
(* Init: an operation is about to be applied to arguments of its domain.   *)
(***************************************************************************)
Init ==
    /\ ret = Pending
    /\ requests = <<>>
    /\ steps = <<>>
    /\ calls = 1
    /\ \/ op = "compare_verifications" /\ args \in CompareArgs
       \/ op = "evaluate" /\ args \in EvaluateArgs
       \/ op = "calculate_win_rate" /\ args \in [comparisons : ComparisonLists]
       \/ op = "calculate_grade" /\ args \in [win_rate : GradeArgs]
       \/ op = "calculate_cost" /\ args \in [comparisons : ComparisonLists]
       \/ op = "score" /\ args \in ScoreArgs
       \/ op = "score_combined" /\ args \in ScoreCombinedArgs
       \/ op = "_calculate_grade" /\ args \in [win_rate : GradeArgs]
       \/ op = "_calculate_score" /\ args \in [comparisons : ExecComparisonLists]
       \/ op = "determine_grade" /\ args \in [issues : IssueLists]
       \/ op = "analyze" /\ args \in AnalyzeArgs
       \/ op = "extract_code" /\ args \in ExtractCodeArgs
       \/ op = "verify_output"
            /\ args \in [expected_files : SeqUpTo(ExpectedFile, MaxExpectedFiles)]
       \/ op = "verify_response" /\ args \in VerifyResponseArgs
       \/ op = "get_execution_prompts"
            /\ args \in [skill_name : SkillNames, num_prompts : 0..MaxNumPrompts]
       \/ op = "ExecutionEvaluator.evaluate" /\ args \in ExecEvaluateArgs
       \/ op = "quality_loop"
            /\ args \in [runs : SeqUpTo(QualityRuns, MaxQualityPrompts)]
       \/ op = "save_score" /\ args \in [skill_score : {SavedScore("pdf")}]
       \/ op = "evaluate_skill" /\ args \in EvaluateSkillArgs
       \/ op = "evaluate_all" /\ args \in [skills : EvaluateAllArgs]
    /\ store \in IF op = "evaluate_all" THEN EvaluateAllStores(args.skills)
                  ELSE {EmptyStore}

(***************************************************************************)
(* Actions: one per operation.                                             *)
(***************************************************************************)
CompareVerifications ==
    /\ op = "compare_verifications"
    /\ ret = Pending
    /\ ret' = Returned(compare_verifications(args.baseline, args.skill))
    /\ UNCHANGED <<op, args, requests, steps>>
    /\ UNCHANGED <<store, calls>>

QualityEvaluate ==
    /\ op = "evaluate"
    /\ ret = Pending
    /\ LET r == evaluate(args.position_a, args.response_text, args.fails_at)
       IN  /\ ret' = r.ret
           /\ requests' = r.requests
    /\ UNCHANGED <<op, args, steps>>
    /\ UNCHANGED <<store, calls>>

CalculateWinRate ==
    /\ op = "calculate_win_rate"
    /\ ret = Pending
    /\ ret' = calculate_win_rate(args.comparisons)
    /\ UNCHANGED <<op, args, requests, steps>>
    /\ UNCHANGED <<store, calls>>

CalculateGrade ==
    /\ op = "calculate_grade"
    /\ ret = Pending
    /\ ret' = Returned(calculate_grade(args.win_rate))
    /\ UNCHANGED <<op, args, requests, steps>>
    /\ UNCHANGED <<store, calls>>

CalculateCost ==
    /\ op = "calculate_cost"
    /\ ret = Pending
    /\ ret' = calculate_cost(args.comparisons)
    /\ UNCHANGED <<op, args, requests, steps>>
    /\ UNCHANGED <<store, calls>>

Score ==
    /\ op = "score"
    /\ ret = Pending
    /\ ret' = score(args.skill_name, args.comparisons, args.security_result)
    /\ UNCHANGED <<op, args, requests, steps>>
    /\ UNCHANGED <<store, calls>>

ScoreCombined ==
    /\ op = "score_combined"
    /\ ret = Pending
    /\ ret' = score_combined(args.skill_name, args.comparisons,
                             args.security_result, args.execution_score)
    /\ UNCHANGED <<op, args, requests, steps>>
    /\ UNCHANGED <<store, calls>>

ExecCalculateGrade ==
    /\ op = "_calculate_grade"
    /\ ret = Pending
    /\ ret' = Returned(exec_calculate_grade(args.win_rate))
    /\ UNCHANGED <<op, args, requests, steps>>
    /\ UNCHANGED <<store, calls>>

ExecCalculateScore ==
    /\ op = "_calculate_score"
    /\ ret = Pending
    /\ ret' = exec_calculate_score(args.comparisons)
    /\ UNCHANGED <<op, args, requests, steps>>
    /\ UNCHANGED <<store, calls>>

DetermineGrade ==
    /\ op = "determine_grade"
    /\ ret = Pending
    /\ ret' = Returned(determine_grade(args.issues))
    /\ UNCHANGED <<op, args, requests, steps>>
    /\ UNCHANGED <<store, calls>>

Analyze ==
    /\ op = "analyze"
    /\ ret = Pending
    /\ LET r == analyze(args.response_text, args.api_fails)
       IN  /\ ret' = r.ret
           /\ requests' = r.requests
    /\ UNCHANGED <<op, args, steps>>
    /\ UNCHANGED <<store, calls>>

ExtractCode ==
    /\ op = "extract_code"
    /\ ret = Pending
    /\ ret' = Returned(extract_code(args.response))
    /\ UNCHANGED <<op, args, requests, steps>>
    /\ UNCHANGED <<store, calls>>

VerifyOutput ==
    /\ op = "verify_output"
    /\ ret = Pending
    /\ LET r == verify_output(args.expected_files)
       IN  /\ ret' = r.ret
           /\ steps' = r.steps
    /\ UNCHANGED <<op, args, requests>>
    /\ UNCHANGED <<store, calls>>

VerifyResponse ==
    /\ op = "verify_response"
    /\ ret = Pending
    /\ LET r == verify_response(args.response, args.expected_files,
                                args.use_docker, args.machine)
       IN  /\ ret' = r.ret
           /\ steps' = r.steps
    /\ UNCHANGED <<op, args, requests>>
    /\ UNCHANGED <<store, calls>>

GetExecutionPrompts ==
    /\ op = "get_execution_prompts"
    /\ ret = Pending
    /\ ret' = Returned(get_execution_prompts(args.skill_name, args.num_prompts))
    /\ UNCHANGED <<op, args, requests, steps>>
    /\ UNCHANGED <<store, calls>>

ExecEvaluate ==
    /\ op = "ExecutionEvaluator.evaluate"
    /\ ret = Pending
    /\ LET r == exec_evaluate(args.skill_name, args.num_prompts, args.fails_at,
                              args.baseline_verified, args.skill_verified)
       IN  /\ ret' = r.ret
           /\ requests' = r.requests
    /\ UNCHANGED <<op, args, steps>>
    /\ UNCHANGED <<store, calls>>

QualityLoop ==
    /\ op = "quality_loop"
    /\ ret = Pending
    /\ LET r == quality_loop(args.runs)
       IN  /\ ret' = r.ret
           /\ requests' = r.requests
           /\ steps' = r.steps
    /\ UNCHANGED <<op, args>>
    /\ UNCHANGED <<store, calls>>

SaveScore ==
    /\ op = "save_score"
    /\ ret = Pending
    /\ ret' = Returned(None)
    /\ store' = save_score(store, args.skill_score)
    /\ steps' = <<logged("save_score")>>
    /\ UNCHANGED <<op, args, requests, calls>>

EvaluateSkill ==
    /\ op = "evaluate_skill"
    /\ ret = Pending
    /\ \E r \in {evaluate_skill(args, store)} :
           /\ ret' = r.ret
           /\ requests' = r.requests
           /\ steps' = r.steps
           /\ store' = r.store
    /\ UNCHANGED <<op, args, calls>>

\* the process ends: the evidence store is what remains of the call
Exit ==
    /\ op \in {"save_score", "evaluate_skill"}
    /\ ret # Pending
    /\ calls < MaxCalls
    /\ op' = "exit"
    /\ args' = None
    /\ ret' = Pending
    /\ requests' = <<>>
    /\ steps' = <<>>
    /\ UNCHANGED <<store, calls>>

\* evaluate_skill is called on the evidence store an earlier process left
NextCall ==
    /\ op = "exit"
    /\ op' = "evaluate_skill"
    /\ args' \in EvaluateSkillArgs
    /\ ret' = Pending
    /\ requests' = <<>>
    /\ steps' = <<>>
    /\ calls' = calls + 1
    /\ UNCHANGED store

EvaluateAll ==
    /\ op = "evaluate_all"
    /\ ret = Pending
    /\ \E r \in {evaluate_all(args.skills, store)} :
           /\ ret' = r.ret
           /\ requests' = r.requests
           /\ steps' = r.steps
           /\ store' = r.store
    /\ UNCHANGED <<op, args, calls>>

Next ==
    \/ CompareVerifications
    \/ QualityEvaluate
    \/ CalculateWinRate
    \/ CalculateGrade
    \/ CalculateCost
    \/ Score
    \/ ScoreCombined
    \/ ExecCalculateGrade
    \/ ExecCalculateScore
    \/ DetermineGrade
    \/ Analyze
    \/ ExtractCode
    \/ VerifyOutput
    \/ VerifyResponse
    \/ GetExecutionPrompts
    \/ ExecEvaluate
    \/ QualityLoop
    \/ SaveScore
    \/ EvaluateSkill
    \/ Exit
    \/ NextCall
    \/ EvaluateAll

Spec == Init /\ [][Next]_vars

(***************************************************************************)
(* Properties.                                                             *)
(***************************************************************************)
Done == ret # Pending

\* the winner when exactly one side has the flag
Winner(skill_flag) == IF skill_flag THEN SKILL_WINS ELSE BASELINE_WINS

\* the cascade of the specification, step by step
Cascade(b, s) ==
    IF b.output_valid # s.output_valid THEN Winner(s.output_valid)
    ELSE IF b.output_valid /\ s.output_valid THEN TIE
    ELSE IF b.execution_success # s.execution_success
      THEN Winner(s.execution_success)
    ELSE IF b.code_extracted # s.code_extracted THEN Winner(s.code_extracted)
    ELSE TIE

\* C1: for every pair of verification results, over all combinations of the
\* flags, compare_verifications returns the verdict of the ordered cascade:
\* exactly one side valid -> that side; both valid -> tie; otherwise exactly
\* one side executed successfully -> that side; otherwise exactly one side
\* had code extracted -> that side; otherwise tie.
C1_CascadeVerdict ==
    (op = "compare_verifications" /\ Done) =>
        /\ ret.kind = "returned"
        /\ ret.value[1] = Cascade(args.baseline, args.skill)

\* C1 witness: the fourth step decides: no valid output and no successful
\* execution on either side, code extracted from the skill response only
C1_Witness ==
    /\ op = "compare_verifications" /\ Done
    /\ ~args.baseline.output_valid /\ ~args.skill.output_valid
    /\ ~args.baseline.execution_success /\ ~args.skill.execution_success
    /\ args.skill.code_extracted /\ ~args.baseline.code_extracted
    /\ ret.value[1] = SKILL_WINS

\* the judge's verdict text once normalised, for a response that carries one
RawVerdict == upper(args.response_text.verdict)

JudgedWithVerdict ==
    /\ op = "evaluate" /\ Done /\ args.fails_at = 0
    /\ args.response_text.shape = "verdict"

\* the response the judge was shown in the position it picked
PickedResponse ==
    IF RawVerdict = "A" THEN requests[3].response_a ELSE requests[3].response_b

SideOf(response) == IF response = "skill_response" THEN SKILL_WINS ELSE BASELINE_WINS

\* the answer of a judge that prefers `response` when shown the judge request
AnswerPreferring(response, request) ==
    [shape |-> "verdict",
     verdict |-> IF request.response_a = response THEN "A" ELSE "B"]

\* C2: in QualityEvaluator.evaluate, for either position assignment, the
\* verdict names the side whose response was shown to the judge in the
\* position the judge picked (A or B), TIE gives TIE, the recorded positions
\* are those shown, and a judge preferring the same underlying response under
\* the other position draw leads to the same verdict.
C2_VerdictNamesPickedSide ==
    (JudgedWithVerdict /\ RawVerdict \in {"A", "B", "TIE"}) =>
        /\ ret.kind = "returned"
        /\ Len(requests) = 3
        /\ (requests[3].response_a = "skill_response") <=> (ret.value.position_a = "skill")
        /\ (requests[3].response_b = "skill_response") <=> (ret.value.position_b = "skill")
        /\ requests[3].response_a # requests[3].response_b
        /\ RawVerdict = "TIE" => ret.value.verdict = TIE
        /\ RawVerdict # "TIE" =>
             /\ ret.value.verdict = SideOf(PickedResponse)
             /\ LET other == ret.value.position_b
                    again == evaluate(other,
                                      AnswerPreferring(PickedResponse, judge_request(other)),
                                      0)
                IN  /\ again.ret.kind = "returned"
                    /\ again.ret.value.position_a # ret.value.position_a
                    /\ again.ret.value.verdict = ret.value.verdict

\* C2 witness: the baseline was drawn for position A, the judge answered B,
\* and the skill wins
C2_Witness ==
    /\ JudgedWithVerdict
    /\ args.position_a = "baseline" /\ RawVerdict = "B"
    /\ ret.kind = "returned" /\ ret.value.verdict = SKILL_WINS

\* C3: when the judge's response carries a verdict that is not A, B or TIE,
\* judge_comparison ends in a judge-parse error and no verdict is produced.
C3_UnknownVerdictIsParseError ==
    (JudgedWithVerdict /\ RawVerdict \notin {"A", "B", "TIE"}) =>
        ret = Raised("JudgeParseError")

\* the counts of a comparison list, taken directly
NumWith(comparisons, v) ==
    Cardinality({i \in 1..Len(comparisons) : comparisons[i].verdict = v})

\* h/100 is 100 * w / d rounded to two decimals: within half a hundredth
IsRounded(x, w, d) ==
    /\ x.den = 100
    /\ 2 * (x.num * d - 10000 * w) <= d
    /\ 2 * (10000 * w - x.num * d) <= d

\* C4: for every non-empty comparison list, calculate_win_rate returns
\* win_rate None iff wins + losses = 0, and otherwise 100 * wins / (wins +
\* losses) rounded to two decimals; ties never enter the denominator.
C4_WinRate ==
    (op = "calculate_win_rate" /\ Done /\ Len(args.comparisons) > 0) =>
        LET w == NumWith(args.comparisons, SKILL_WINS)
            l == NumWith(args.comparisons, BASELINE_WINS)
        IN  /\ ret.kind = "returned"
            /\ IsNone(ret.value[4]) <=> (w + l = 0)
            /\ (w + l > 0) => IsRounded(ret.value[4], w, w + l)

\* C4 witness: one win, one loss and a tie give 50.00, not 33.33
C4_Witness ==
    /\ op = "calculate_win_rate" /\ Done
    /\ NumWith(args.comparisons, SKILL_WINS) = 1
    /\ NumWith(args.comparisons, BASELINE_WINS) = 1
    /\ NumWith(args.comparisons, TIE) = 1
    /\ ret.kind = "returned"
    /\ ret.value[4] = Frac(5000, 100)

\* C5: in every score object produced the verdict counts partition the
\* comparisons: wins + losses + ties = total_comparisons (the length of the
\* list) for calculate_win_rate and every SkillScore, and execution_wins +
\* execution_losses + execution_ties = prompts_tested for every
\* ExecutionScore.
C5_CountsPartition ==
    /\ (op = "calculate_win_rate" /\ Done /\ ret.kind = "returned") =>
          ret.value[1] + ret.value[2] + ret.value[3] = Len(args.comparisons)
    /\ (op = "score" /\ Done /\ ret.kind = "returned") =>
          /\ ret.value.wins + ret.value.losses + ret.value.ties
               = ret.value.total_comparisons
          /\ ret.value.total_comparisons = Len(args.comparisons)
    /\ (op = "_calculate_score" /\ Done /\ ret.kind = "returned") =>
          /\ ret.value.execution_wins + ret.value.execution_losses
               + ret.value.execution_ties = ret.value.prompts_tested
          /\ ret.value.prompts_tested = Len(args.comparisons)

\* C5 witness: an execution score over two prompts, one won and one lost
C5_Witness ==
    /\ op = "_calculate_score" /\ Done /\ ret.kind = "returned"
    /\ ret.value.prompts_tested = 2
    /\ ret.value.execution_wins = 1
    /\ ret.value.execution_losses = 1
    /\ ret.value.execution_ties = 0

\* the grade of the band the win rate lies in: [0,20) F, [20,40) D,
\* [40,60) C, [60,80) B, [80,100] A
Band(win_rate) ==
    IF IsNone(win_rate) THEN "F"
    ELSE LET k == win_rate.num \div (20 * win_rate.den)
         IN  <<"F", "D", "C", "B", "A", "A">>[k + 1]

Rank(grade) ==
    CASE grade = "F" -> 0 [] grade = "D" -> 1 [] grade = "C" -> 2
      [] grade = "B" -> 3 [] grade = "A" -> 4

\* C6: Scorer.calculate_grade and ExecutionEvaluator._calculate_grade are the
\* same function: A for >= 80, B for >= 60, C for >= 40, D for >= 20, F
\* below and for None; the grade never gets worse when the win rate grows.
C6_GradeBands ==
    (op \in {"calculate_grade", "_calculate_grade"} /\ Done) =>
        /\ ret = Returned(Band(args.win_rate))
        /\ calculate_grade(args.win_rate) = exec_calculate_grade(args.win_rate)
        /\ ~IsNone(args.win_rate) =>
             \A w2 \in GradeArgs \ {None} :
                 FracLe(args.win_rate, w2) =>
                     /\ Rank(calculate_grade(w2)) >= Rank(ret.value)
                     /\ Rank(exec_calculate_grade(w2)) >= Rank(ret.value)

\* C6 witness: _calculate_grade at exactly 80 gives A
C6_Witness ==
    /\ op = "_calculate_grade" /\ Done
    /\ ~IsNone(args.win_rate)
    /\ args.win_rate.num = 80 * args.win_rate.den
    /\ ret = Returned("A")

\* C7: calculate_win_rate, calculate_cost and score each fail with
\* ScorerError on an empty comparison list and return nothing.
C7_EmptyListIsScorerError ==
    (op \in {"calculate_win_rate", "calculate_cost", "score"} /\ Done
       /\ args.comparisons = <<>>) =>
        ret = Raised("ScorerError")

\* C7 witness: score on an empty list has raised ScorerError
C7_Witness ==
    /\ op = "score" /\ Done /\ args.comparisons = <<>>
    /\ ret = Raised("ScorerError")

\* C8: for every non-empty comparison list and every security result, score
\* returns a SkillScore (it does not raise) whose wins, losses, ties, win_rate
\* and grade are those of calculate_win_rate and calculate_grade, whose
\* total_comparisons is the length of the list and whose security fields are
\* the security result's grade and number of issues.
C8_ScoreReturnsSkillScore ==
    (op = "score" /\ Done /\ args.comparisons # <<>>) =>
        /\ ret.kind = "returned"
        /\ LET wr == calculate_win_rate(args.comparisons).value
           IN  /\ ret.value.wins = wr[1]
               /\ ret.value.losses = wr[2]
               /\ ret.value.ties = wr[3]
               /\ ret.value.win_rate = wr[4]
               /\ ret.value.grade = calculate_grade(wr[4])
        /\ ret.value.total_comparisons = Len(args.comparisons)
        /\ ret.value.security_grade = args.security_result.grade
        /\ ret.value.security_issues_count = Len(args.security_result.issues)

\* no execution result is available: none was computed, or its win rate is None
NoExecution(execution_score) ==
    IsNone(execution_score) \/ IsNone(execution_score.execution_win_rate)

\* C9: the scorer's combined score is defined for every scored skill; when no
\* execution result is available it equals the quality win rate alone, and
\* the security grade is carried through unchanged.
C9_CombinedScoreDefined ==
    (op = "score_combined" /\ Done) =>
        /\ ret.kind = "returned"
        /\ ret.value.security_grade = args.security_result.grade
        /\ NoExecution(args.execution_score) =>
             LET wr == calculate_win_rate(args.comparisons).value[4]
             IN  ~IsNone(wr) => FracEq(ret.value.combined_score, wr)

\* C10: the numeric score does not depend on security: scoring the same
\* comparison list with any other security result yields a score with the
\* same wins, losses, ties, win_rate and grade, each carrying the grade and
\* the number of issues of its own security result.
C10_ScoreIgnoresSecurity ==
    (op = "score" /\ Done /\ args.comparisons # <<>>) =>
        \A s2 \in SecurityResult :
            LET other == score(args.skill_name, args.comparisons, s2)
            IN  /\ ret.kind = "returned"
                /\ other.kind = "returned"
                /\ other.value.wins = ret.value.wins
                /\ other.value.losses = ret.value.losses
                /\ other.value.ties = ret.value.ties
                /\ other.value.win_rate = ret.value.win_rate
                /\ other.value.grade = ret.value.grade
                /\ ret.value.security_grade = args.security_result.grade
                /\ other.value.security_grade = s2.grade
                /\ ret.value.security_issues_count = Len(args.security_result.issues)
                /\ other.value.security_issues_count = Len(s2.issues)

\* how severe a security grade is
Severeness(grade) ==
    CASE grade = "secure" -> 0 [] grade = "warning" -> 1 [] grade = "fail" -> 2

\* the number of places of a list that hold the issue
Occurrences(issues, issue) ==
    Cardinality({i \in 1..Len(issues) : issues[i] = issue})

\* the list with one more issue put after its first k issues
InsertAt(issues, k, issue) ==
    SubSeq(issues, 1, k) \o <<issue>> \o SubSeq(issues, k + 1, Len(issues))

\* C11: determine_grade returns fail if some issue has severity high,
\* otherwise warning if some issue has severity medium, otherwise secure
\* (the empty list included); every reordering of the issues gets the same
\* grade, and an issue added anywhere never gives a milder grade.
C11_DetermineGrade ==
    (op = "determine_grade" /\ Done) =>
        LET has(sev) == \E i \in 1..Len(args.issues) : args.issues[i].severity = sev
        IN  /\ ret = Returned(IF has("high") THEN "fail"
                              ELSE IF has("medium") THEN "warning"
                              ELSE "secure")
            /\ \A other \in IssueLists :
                 (/\ Len(other) = Len(args.issues)
                  /\ \A issue \in SecurityIssue :
                       Occurrences(other, issue) = Occurrences(args.issues, issue))
                 => determine_grade(other) = ret.value
            /\ \A issue \in SecurityIssue, k \in 0..Len(args.issues) :
                 Severeness(determine_grade(InsertAt(args.issues, k, issue)))
                   >= Severeness(ret.value)

\* C11 witness: a medium issue followed by a high one is graded fail
C11_Witness ==
    /\ op = "determine_grade" /\ Done
    /\ Len(args.issues) = 2
    /\ args.issues[1].severity = "medium"
    /\ args.issues[2].severity = "high"
    /\ ret = Returned("fail")

\* the response does not match the expected schema: it is not valid JSON, it
\* has no issues field, or an issue entry lacks one of its four keys
SchemaMismatch(response_text) ==
    \/ response_text.shape \in {"invalid_json", "no_issues"}
    \/ /\ response_text.shape = "issues"
       /\ \E i \in 1..Len(response_text.entries) :
            response_text.entries[i].lacks # "none"

\* C12: whenever the security model's response does not match the expected
\* schema, parsing fails with SecurityParseError and analyze returns no
\* SecurityResult.
C12_SchemaMismatchIsParseError ==
    (op = "analyze" /\ Done /\ ~args.api_fails
       /\ SchemaMismatch(args.response_text)) =>
        ret = Raised("SecurityParseError")

\* C13: every issue of a SecurityResult returned by analyze has a severity
\* in {low, medium, high} and a category of the five-category taxonomy.
C13_IssuesWithinTaxonomy ==
    (op = "analyze" /\ Done /\ ret.kind = "returned") =>
        \A i \in 1..Len(ret.value.issues) :
            /\ ret.value.issues[i].severity \in Severity
            /\ ret.value.issues[i].category \in Taxonomy

\* the place of a step among the stages of verify_response: the query for
\* the container runtime, the script written, the process started, the
\* outputs checked
StageOf(step) ==
    CASE step.step = "probe" -> 0
      [] step.step = "write" -> 1
      [] step.step = "run" -> 2
      [] step.step \in {"exists", "check"} -> 3

HasStep(names) == \E i \in 1..Len(steps) : steps[i].step \in names

Verified == op = "verify_response" /\ Done

\* C14: verify_response goes through its stages in order (no code, code
\* extracted, executed, output checked) and stops at the first that fails:
\* its steps come in stage order, the script is written before the process
\* is started; without executable code nothing is written, started or
\* checked and the result has no flag set; the expected files are looked at
\* only after a process that ran and exited with code 0; and in every result
\* output_valid implies execution_success, which implies executed, which
\* implies code_extracted.
C14_StagesInOrder ==
    Verified =>
        /\ \A i, j \in 1..Len(steps) : i < j => StageOf(steps[i]) <= StageOf(steps[j])
        /\ HasStep({"run"}) => HasStep({"write"})
        /\ ~extract_code(args.response).has_executable_code =>
             /\ steps = <<>>
             /\ ret.kind = "returned"
             /\ ~ret.value.code_extracted /\ ~ret.value.executed
             /\ ~ret.value.execution_success /\ ~ret.value.output_valid
        /\ HasStep({"exists", "check"}) =>
             HasStep({"run"}) /\ args.machine.run = "exit0"
        /\ ret.kind = "returned" =>
             /\ ret.value.output_valid => ret.value.execution_success
             /\ ret.value.execution_success => ret.value.executed
             /\ ret.value.executed => ret.value.code_extracted
             /\ ~ret.value.execution_success => ~HasStep({"exists", "check"})

\* C14 witness: a python response run locally: script written, process
\* started and exited with 0, the expected file found and checked, valid
C14_Witness ==
    /\ Verified /\ ~args.use_docker
    /\ Len(steps) = 4
    /\ steps[1].step = "write" /\ steps[2].step = "run"
    /\ steps[3].step = "exists" /\ steps[4].step = "check"
    /\ ret.kind = "returned" /\ ret.value.output_valid

\* the primary language is executable-class and neither python nor bash
UnsupportedPrimary ==
    /\ extract_code(args.response).has_executable_code
    /\ extract_code(args.response).primary_language
         \in EXECUTABLE_LANGUAGES \ {"python", "bash"}

C16_NeverRaises ==
    Verified =>
        /\ ret.kind = "returned"
        /\ \A i \in 1..Len(args.expected_files) :
             (HasStep({"check"})
                /\ args.expected_files[i].content
                     \in {"corrupt", "unparsable", "library_missing", "unreadable"}) =>
                 /\ ~ret.value.output_valid
                 /\ ret.value.output_properties[i].error

\* the file exists and passes the check for its type
Passes(file) ==
    /\ file.content # "missing"
    /\ check_file(file).kind = "returned"
    /\ check_file(file).value.valid

\* C17: verify_output returns valid exactly when every expected file exists
\* and passes the check for its type; a missing file is recorded as not
\* existing and its content is not checked.
C17_ValidIffEveryFilePasses ==
    (op = "verify_output" /\ Done) =>
        /\ (ret.kind = "returned" /\ ret.value[1])
             <=> \A i \in 1..Len(args.expected_files) : Passes(args.expected_files[i])
        /\ \A i \in 1..Len(args.expected_files) :
             args.expected_files[i].content = "missing" =>
                 /\ ~\E k \in 1..Len(steps) :
                        steps[k].step = "check" /\ steps[k].file = i
                 /\ ret.kind = "returned" => ~ret.value[2][i].exists

\* C17 witness: the first of two files fails its check and the second
\* passes: both were checked and the output is not valid
C17_Witness ==
    /\ op = "verify_output" /\ Done
    /\ Len(args.expected_files) = 2
    /\ ~Passes(args.expected_files[1]) /\ args.expected_files[1].content # "missing"
    /\ Passes(args.expected_files[2])
    /\ Len(steps) = 4
    /\ ret.kind = "returned" /\ ~ret.value[1]

\* C18: a JSON or YAML file with required keys is valid only if it parses
\* and every required key is present at its top level, whatever the type of
\* the parsed top-level value.
C18_RequiredKeysAtTopLevel ==
    (op = "verify_output" /\ Done /\ Len(args.expected_files) = 1
       /\ args.expected_files[1].ext \in {".json", ".yaml"}
       /\ args.expected_files[1].keys) =>
        ((ret.kind = "returned" /\ ret.value[1]) =>
            args.expected_files[1].content = "mapping_with_keys")

\* the name, normalised, is mapped to advisory or is not in the map
IsAdvisory(skill_name) ==
    strip(lower(skill_name))
        \notin FileArtifactSkills \cup CodeGenerationSkills \cup ConfigurationSkills

AllCountsZero(s) ==
    /\ s.prompts_tested = 0 /\ s.code_extracted_count = 0
    /\ s.executions_attempted = 0 /\ s.executions_succeeded = 0
    /\ s.outputs_valid = 0
    /\ s.execution_wins = 0 /\ s.execution_losses = 0
    /\ s.execution_ties = 0

\* C19: for an advisory skill, names absent from the category map included,
\* get_execution_prompts returns no prompts, and ExecutionEvaluator.evaluate
\* makes no completion call and returns the empty comparison list with a
\* score whose counts are all zero, whose execution_win_rate is None and
\* whose grade is F.
C19_AdvisorySkipsExecution ==
    /\ (op = "get_execution_prompts" /\ Done /\ IsAdvisory(args.skill_name)) =>
          ret = Returned(<<>>)
    /\ (op = "ExecutionEvaluator.evaluate" /\ Done /\ IsAdvisory(args.skill_name)) =>
          /\ requests = <<>>
          /\ ret.kind = "returned"
          /\ ret.value[1] = <<>>
          /\ AllCountsZero(ret.value[2])
          /\ IsNone(ret.value[2].execution_win_rate)
          /\ ret.value[2].execution_grade = "F"

\* C19 witness: evaluate with eight prompts asked for a skill whose name is
\* not in the map has returned the empty score without a request
C19_Witness ==
    /\ op = "ExecutionEvaluator.evaluate" /\ Done
    /\ args.skill_name = "unheard-of" /\ args.num_prompts = 8
    /\ requests = <<>>
    /\ ret.kind = "returned"
    /\ ret.value[2].execution_grade = "F"

\* C20: a run in which prompts were attempted and none produced a
\* comparison is fatal: the quality loop of evaluate_skill returns None
\* without going on to score, and ExecutionEvaluator.evaluate for a skill
\* that is not advisory ends in an exception and returns no score for the
\* empty list.
C20_NoComparisonIsFatal ==
    /\ (op = "quality_loop" /\ Done /\ Len(args.runs) > 0
          /\ \A i \in 1..Len(args.runs) :
                evaluate(args.runs[i].position_a, args.runs[i].response_text,
                         args.runs[i].fails_at).ret.kind = "raised") =>
          ret = Returned(None)
    /\ (op = "ExecutionEvaluator.evaluate" /\ Done
          /\ Len(get_execution_prompts(args.skill_name, args.num_prompts)) > 0
          /\ evaluate_prompt(args.fails_at, args.baseline_verified,
                             args.skill_verified).ret.kind = "raised") =>
          ret.kind = "raised"

\* the combined code of a language: blank when every block of the language
\* is blank (or there is none)
CombinedBlank(response, language) ==
    \A i \in 1..Len(response) :
        response[i].language = language => response[i].blank

\* C25: for every sequence of code blocks, extract_code sets
\* has_executable_code exactly when the primary language it detected is an
\* executable language and the combined code of that language is not blank;
\* a response with blocks of non-executable languages only has
\* has_executable_code false although blocks were extracted.
C25_HasExecutableCode ==
    (op = "extract_code" /\ Done) =>
        /\ ret.kind = "returned"
        /\ ret.value.primary_language = detect_primary_language(args.response)
        /\ ret.value.has_executable_code
             <=> /\ ret.value.primary_language \in EXECUTABLE_LANGUAGES
                 /\ ~CombinedBlank(args.response, ret.value.primary_language)
        /\ (\A i \in 1..Len(args.response) :
               args.response[i].language \notin EXECUTABLE_LANGUAGES) =>
             ~ret.value.has_executable_code

\* C25 witness: a single non-blank json block: one block extracted, json
\* the primary language, no executable code
C25_Witness ==
    /\ op = "extract_code" /\ Done
    /\ Len(args.response) = 1
    /\ args.response[1].language = "json" /\ ~args.response[1].blank
    /\ ret.value.blocks_count = 1
    /\ ret.value.primary_language = "json"
    /\ ~ret.value.has_executable_code

\* how far a verdict leans to the skill
Lean(verdict) ==
    CASE verdict = BASELINE_WINS -> -1 [] verdict = TIE -> 0 [] verdict = SKILL_WINS -> 1

ProgressFlags == {"code_extracted", "execution_success", "output_valid"}

\* the result with one flag set
WithFlag(verification, flag) == [verification EXCEPT ![flag] = TRUE]

\* C26: the cascade is monotone in partial progress: with the baseline
\* result fixed, setting one of the skill's flags code_extracted,
\* execution_success, output_valid from false to true never moves the
\* verdict towards the baseline, and with the skill result fixed, setting
\* one of the baseline's flags never moves it towards the skill.
C26_CascadeMonotone ==
    (op = "compare_verifications" /\ Done) =>
        \A flag \in ProgressFlags :
            /\ ~args.skill[flag] =>
                 Lean(compare_verifications(args.baseline,
                                            WithFlag(args.skill, flag))[1])
                   >= Lean(ret.value[1])
            /\ ~args.baseline[flag] =>
                 Lean(compare_verifications(WithFlag(args.baseline, flag),
                                            args.skill)[1])
                   <= Lean(ret.value[1])

\* C26 witness: the baseline wins because only its code ran; once the
\* skill's code runs as well the skill wins on code extracted
C26_Witness ==
    /\ op = "compare_verifications" /\ Done
    /\ ~args.skill.execution_success
    /\ ret.value[1] = BASELINE_WINS
    /\ compare_verifications(args.baseline,
                             WithFlag(args.skill, "execution_success"))[1] = SKILL_WINS

\* C27: every VerificationResult that verify_response returns, on every
\* path (no code, unsupported language, spawn failure, timeout, non-zero
\* exit, exit 0), has output_valid => execution_success, execution_success
\* => executed and executed => code_extracted.
C27_FlagsNested ==
    (Verified /\ ret.kind = "returned") =>
        /\ ret.value.output_valid => ret.value.execution_success
        /\ ret.value.execution_success => ret.value.executed
        /\ ret.value.executed => ret.value.code_extracted

\* C27 witness: the process timed out: executed without execution_success,
\* and the output not valid
C27_Witness ==
    /\ Verified /\ ret.kind = "returned"
    /\ args.machine.run = "timeout"
    /\ ret.value.code_extracted /\ ret.value.executed
    /\ ~ret.value.execution_success /\ ~ret.value.output_valid
    /\ ret.value.execution_error = "Timeout"

\* the score an operation of ExecutionEvaluator has returned
ScoreOf(outcome) == IF op = "_calculate_score" THEN outcome.value ELSE outcome.value[2]

\* C28: every ExecutionScore that ExecutionEvaluator.evaluate computes, by
\* _calculate_score over comparisons of results of verify_response or as the
\* empty score, is built without a validation error and has outputs_valid
\* <= executions_succeeded <= executions_attempted <= code_extracted_count
\* <= prompts_tested and its three rates within [0, 100].
C28_CountsNested ==
    (op \in {"_calculate_score", "ExecutionEvaluator.evaluate"} /\ Done) =>
        /\ ret.kind = "returned"
        /\ ScoreOf(ret).outputs_valid <= ScoreOf(ret).executions_succeeded
        /\ ScoreOf(ret).executions_succeeded <= ScoreOf(ret).executions_attempted
        /\ ScoreOf(ret).executions_attempted <= ScoreOf(ret).code_extracted_count
        /\ ScoreOf(ret).code_extracted_count <= ScoreOf(ret).prompts_tested
        /\ InPercentRange(ScoreOf(ret).extraction_rate)
        /\ InPercentRange(ScoreOf(ret).execution_success_rate)
        /\ InPercentRange(ScoreOf(ret).validation_rate)

\* C28 witness: a score over two prompts: code extracted and run for both,
\* one run succeeded and its output was valid
C28_Witness ==
    /\ op = "_calculate_score" /\ Done /\ ret.kind = "returned"
    /\ ret.value.prompts_tested = 2
    /\ ret.value.code_extracted_count = 2
    /\ ret.value.executions_attempted = 2
    /\ ret.value.executions_succeeded = 1
    /\ ret.value.outputs_valid = 1
    /\ ret.value.execution_success_rate = Frac(5000, 100)

\* the requests of the calls of a loop, one after the other
RECURSIVE Flatten(_)
Flatten(made) ==
    IF Len(made) = 0 THEN <<>> ELSE Head(made).requests \o Flatten(Tail(made))

\* the values of the made that returned, in the order of the made
RECURSIVE ReturnedOf(_)
ReturnedOf(made) ==
    IF Len(made) = 0 THEN <<>>
    ELSE IF Head(made).ret.kind = "returned"
      THEN <<Head(made).ret.value>> \o ReturnedOf(Tail(made))
    ELSE ReturnedOf(Tail(made))

\* what QualityEvaluator.evaluate does for each prompt of the quality loop
QualityCalls ==
    [i \in 1..Len(args.runs) |->
        evaluate(args.runs[i].position_a, args.runs[i].response_text,
                 args.runs[i].fails_at)]

\* what evaluate_prompt does for each prompt of the execution loop
ExecutionCalls ==
    [i \in 1..Len(get_execution_prompts(args.skill_name, args.num_prompts)) |->
        evaluate_prompt(args.fails_at, args.baseline_verified, args.skill_verified)]

\* the comparisons the quality loop ended with
LoopComparisons == IF ret.kind = "continued" THEN ret.comparisons ELSE <<>>

HasScore == skill_file("score.json") \in DOMAIN store

\* the indices of the comparison files in the evidence store
ComparisonIndices == {f.index : f \in {g \in DOMAIN store : g.name = "comparisons"}}

\* the indices of the prompts whose evaluation returned in this call
SucceededIndices ==
    {i - 1 : i \in {j \in 1..Len(args.runs) :
                      evaluate(args.runs[j].position_a, args.runs[j].response_text,
                               args.runs[j].fails_at).ret.kind = "returned"}}

\* a call of evaluate_skill that has ended and was not the skip of lines
\* 143-145 (nothing in the model removes score.json but force)
Evaluated == op = "evaluate_skill" /\ Done /\ (args.force \/ ~HasScore)

\* C22: a call of evaluate_skill without force for a skill whose score.json
\* is in the evidence store returns the saved score, sends no request and
\* neither writes to nor deletes from the evidence store.
C22_SkipLeavesStoreAlone ==
    [][(/\ op = "evaluate_skill" /\ ret = Pending
        /\ ~args.force /\ HasScore)
         => /\ ret' = Returned(store[skill_file("score.json")])
            /\ requests' = <<>>
            /\ steps' = <<>>
            /\ store' = store]_vars

\* C22 witness: the score was saved, then evaluate_skill without force
\* returned it; the store holds score.json and nothing else
C22_Witness ==
    /\ op = "evaluate_skill" /\ Done /\ calls = 2
    /\ ~args.force /\ args.skill_md /\ args.api_key
    /\ ret = Returned(SavedScore("pdf"))
    /\ requests = <<>> /\ steps = <<>>
    /\ DOMAIN store = {skill_file("score.json")}

\* C23: with the API credential missing, a call of evaluate_skill that is
\* not skipped ends in the configuration error before any work: no request
\* was sent, nothing was written to or deleted from the evidence store, and
\* the caller gets the configuration error.
C23_FailsBeforeAnyWork ==
    (Evaluated /\ args.skill_md /\ ~args.api_key) =>
        /\ ret = Raised("ConfigurationError")
        /\ requests = <<>>
        /\ steps = <<>>

\* C24: evaluate-all calls evaluate_skill for every skill found, an earlier
\* failure notwithstanding, and its summary puts every skill among the
\* successes or among the failures: a skill without a score is in the list
\* of errors.
C24_EverySkillClassified ==
    (op = "evaluate_all" /\ Done /\ Len(args.skills) > 0) =>
        /\ \A i \in 1..Len(args.skills) :
               \E k \in 1..Len(steps) :
                   steps[k].step = "evaluate_skill" /\ steps[k].index = i - 1
        /\ \A i \in 1..Len(args.skills) :
               \/ \E k \in 1..Len(ret.value.scores) :
                      ret.value.scores[k].skill_name = args.skills[i].skill_name
               \/ \E k \in 1..Len(ret.value.errors) :
                      ret.value.errors[k][1] = args.skills[i].skill_name

\* C29: after a call of evaluate_skill that reached the comparison loop,
\* whatever calls came before, the comparison files in the evidence store
\* are those of the prompts that succeeded in this call and no other.
C29_OnlyThisRunsComparisons ==
    (Evaluated /\ args.skill_md /\ args.api_key) =>
        ComparisonIndices = SucceededIndices

\* C30: a call of evaluate_skill that is not skipped, with SKILL.md there,
\* the credential set, at least one prompt whose comparison succeeded and a
\* security check that succeeded or was skipped, returns the SkillScore and
\* has saved score.json.
C30_ScoreSaved ==
    (/\ Evaluated /\ args.skill_md /\ args.api_key
     /\ SucceededIndices # {}
     /\ (args.skip_security \/ ~args.security.api_fails)) =>
        /\ ret.kind = "returned"
        /\ ~IsNone(ret.value)
        /\ HasScore

====
